---- MODULE Spec2Model ----
(***************************************************************************)
(* Article-to-video pipeline (Wlddzuk/scap_web).                           *)
(*                                                                         *)
(*   summarizer.py       summarize_article: the provider fallback chain    *)
(*   video_generator.py  generate_video: speech, images, pacing, assembly, *)
(*                       render and cleanup                                *)
(*                       generate_image_fal: image acquisition             *)
(*                       generate_tts_kokoro: speech synthesis             *)
(*                       clean_script_for_tts, chunk_text_for_tiktok       *)
(*                       generate_themed_images and the analysis calls     *)
(*                                                                         *)
(* Each function is one specification over the shared variable tuple; the  *)
(* variables of the other functions stay at their idle values.             *)
(***************************************************************************)
EXTENDS Integers, Sequences, FiniteSets, TLC

VARIABLES
    \* ---- summarize_article (summarizer.py) ----
    sum_pc,        \* position in summarize_article
    calls,         \* providers invoked so far, in invocation order
    responses,     \* what each invoked provider's backend answered
    errors,        \* the `errors` dict: provider name -> str(e)
    result,        \* the dict summarize_article returned
    raised,        \* the payload of the aggregate exception raised
    \* ---- generate_video (video_generator.py) ----
    vid_pc,            \* position in generate_video
    actual_audio_path, \* file written by speech synthesis
    disk,              \* temp audio files present on disk
    audio,             \* AudioFileClip handle state
    audio_duration,    \* audio.duration, in half-seconds
    themed_images,     \* number of images generate_themed_images returned
    chunks,            \* number of text chunks
    time_per_chunk,    \* rational <<num, den>>, in half-seconds
    clips,             \* list of clips: [kind, img, dur, h]
    main_video,        \* composite: [dur, h, has_audio]
    render_calls,      \* number of write_videofile calls
    render_outcome,    \* "none" | "ok" | "raised"
    cleanup_runs,      \* number of times the finally block ran
    unlink_calls,      \* number of Path(actual_audio_path).unlink() calls
    vid_outcome,       \* "running" | "returned" | the exception that escaped
    \* ---- generate_image_fal (video_generator.py) ----
    img_pc,        \* position in generate_image_fal
    fal_key,       \* whether FAL_KEY is set in the environment
    retry_count,   \* the retry_count argument
    attempt,       \* loop iterations started
    fal_calls,     \* number of fal_client.run calls
    downloads,     \* number of requests.get calls
    sleeps,        \* number of time.sleep(2) calls
    image,         \* the image returned: [w, h, src, box]
    img_raised,    \* the exception that escaped, "none" if none
    \* ---- generate_tts_kokoro (video_generator.py) ----
    tts_pc,        \* position in generate_tts_kokoro
    output_path,   \* the output_path argument, a sequence of path pieces
    segments,      \* audio segments the Kokoro generator yielded
    engine_calls,  \* engines invoked so far, in invocation order
    kokoro_raised, \* stage at which Kokoro raised, "none" if it did not
    tts_files,     \* complete audio files on disk: [path, by]
    tts_return,    \* the path returned, <<>> if none
    tts_raised,    \* the exception that escaped, "none" if none
    \* ---- clean_script_for_tts, chunk_text_for_tiktok ----
    txt_pc,          \* "start" | "cleaned" | "chunked"
    script,          \* the script, a sequence of characters
    clean_script,    \* clean_script_for_tts(script)
    words_per_chunk, \* the words_per_chunk argument
    text_chunks,     \* chunk_text_for_tiktok(script, words_per_chunk)
    \* ---- generate_themed_images and its three analysis calls ----
    an_pc,           \* position in generate_themed_images
    groq_key,        \* whether GROQ_API_KEY is set in the environment
    title,           \* the article title, a sequence of characters
    num_images,      \* the num_images argument (K)
    subjects,        \* what extract_story_subjects returned
    style,           \* what select_style_with_groq returned
    groq_log,        \* text-generation backend calls, in order
    prompt_replies,  \* the backend's replies to the prompt calls, in order
    prompts,         \* what generate_image_prompts_with_groq returned
    prompt_list,     \* the prompts after the fallback of line 737
    image_prompts,   \* prompts passed to generate_image_fal, in order
    an_raised,       \* the exception that escaped, "none" if none
    \* ---- the article endpoints (app.py) ----
    articles,        \* the articles table: row id -> row
    workers,         \* what each worker process is handling
    response,        \* the HTTP response the last step sent
    \* ---- concurrent generate_video invocations ----
    now,             \* the clock, in milliseconds
    runs,            \* each invocation: position, article id and paths
    videos_dir       \* the files in the videos directory

sumVars == <<sum_pc, calls, responses, errors, result, raised>>
vidVars == <<vid_pc, actual_audio_path, disk, audio, audio_duration,
             themed_images, chunks, time_per_chunk, clips, main_video,
             render_calls, render_outcome, cleanup_runs, unlink_calls,
             vid_outcome>>
imgVars == <<img_pc, fal_key, retry_count, attempt, fal_calls, downloads,
             sleeps, image, img_raised>>
ttsVars == <<tts_pc, output_path, segments, engine_calls, kokoro_raised,
             tts_files, tts_return, tts_raised>>
txtVars == <<txt_pc, script, clean_script, words_per_chunk, text_chunks>>
anVars == <<an_pc, groq_key, title, num_images, subjects, style, groq_log,
            prompt_replies, prompts, prompt_list, image_prompts, an_raised>>
apiVars == <<articles, workers, response>>
runVars == <<now, runs, videos_dir>>
vars == <<sumVars, vidVars, imgVars, ttsVars, txtVars, anVars, apiVars,
          runVars>>

\* what the actions of one function leave alone
notSum == <<vidVars, imgVars, ttsVars, txtVars, anVars, apiVars,
           runVars>>
notVid == <<sumVars, imgVars, ttsVars, txtVars, anVars, apiVars,
           runVars>>
notImg == <<sumVars, vidVars, ttsVars, txtVars, anVars, apiVars,
           runVars>>
notTts == <<sumVars, vidVars, imgVars, txtVars, anVars, apiVars,
           runVars>>
notTxt == <<sumVars, vidVars, imgVars, ttsVars, anVars, apiVars,
           runVars>>
notAn == <<sumVars, vidVars, imgVars, ttsVars, txtVars, apiVars,
           runVars>>
notApi == <<sumVars, vidVars, imgVars, ttsVars, txtVars, anVars, runVars>>
notRun == <<sumVars, vidVars, imgVars, ttsVars, txtVars, anVars, apiVars>>

(***************************************************************************)
(* Bounds of the model.                                                    *)
(***************************************************************************)
MaxBulletsReturned == 9    \* a provider's JSON carries 0..9 bullets
MaxHashtagsReturned == 6   \* a provider's JSON carries 0..6 hashtags
MaxAudio == 32             \* audio duration 1..32 half-seconds (16 s)
MaxChunks == 4             \* a script yields 0..4 chunks
MaxImages == 3             \* generate_themed_images returns 0..3 images
MaxRetry == 3              \* retry_count argument 0..3 (the default is 2)
MaxSide == 4               \* a downloaded image is 1..4 pixels wide and high
MaxArticle == 3            \* article ids 1..3 name the temp audio path
MaxSegments == 3           \* the Kokoro generator yields 0..3 segments
MaxScriptLen == 5          \* a script has 0..5 characters
MaxWordsPerChunk == 4      \* words_per_chunk argument 1..4 (the default is 4)
MaxPrompts == 2            \* num_images argument 1..2

(***************************************************************************)
(* summarizer.py                                                           *)
(***************************************************************************)
Providers == <<"openrouter", "groq", "mistral", "gemini">>
ProviderSet == {Providers[i] : i \in 1..Len(Providers)}

RequiredKeys == {"tldr", "bullets", "video_script", "hashtags"}

\* A JSON value a backend can put in its completion text.
JsonObject(keys, who, nb, nh) ==
    [kind |-> "object", keys |-> keys, tldr |-> who,
     bullets |-> [i \in 1..nb |-> i], video_script |-> "script",
     hashtags |-> [i \in 1..nh |-> i]]
JsonArray == [kind |-> "array", keys |-> {}, tldr |-> "", bullets |-> <<>>,
              video_script |-> "", hashtags |-> <<>>]
JsonMalformed == [kind |-> "malformed", keys |-> {}, tldr |-> "",
                  bullets |-> <<>>, video_script |-> "", hashtags |-> <<>>]

\* A completion text: what precedes the JSON, the JSON, what follows it.
\*   pre:  "none" | "fence" (```) | "fence_json" (```json) | "prose"
\*   post: "none" | "fence" (```) | "fence_prose" (``` then prose) | "prose"
Text(pre, body, post) == [pre |-> pre, body |-> body, post |-> post]
NoText == Text("none", JsonMalformed, "none")

FullObject(who) == JsonObject(RequiredKeys, who, 5, 5)

\* How a backend wraps its JSON: bare, fenced (closed or not, with or
\* without the language tag, with or without prose after the closing
\* fence), or with prose before or after it.
Wrappings ==
    {<<"none", "none">>, <<"fence", "fence">>, <<"fence_json", "fence">>,
     <<"fence_json", "none">>, <<"fence", "fence_prose">>,
     <<"fence_json", "fence_prose">>, <<"fence", "prose">>,
     <<"prose", "none">>, <<"none", "prose">>}

\* The completion texts the model draws from, for provider `who`.
TextsOf(who) ==
    \* a well-formed full object under each wrapping
    {Text(w[1], FullObject(who), w[2]) : w \in Wrappings}
    \* bare objects with every count of bullets and hashtags
    \cup {Text("none", JsonObject(RequiredKeys, who, nb, nh), "none") :
            nb \in 0..MaxBulletsReturned, nh \in 0..MaxHashtagsReturned}
    \* bare objects missing required keys
    \cup {Text("none", JsonObject(RequiredKeys \ miss, who, 5, 5), "none") :
            miss \in {{"tldr"}, {"bullets"}, {"video_script"}, {"hashtags"},
                      RequiredKeys}}
    \* JSON that is no object, and text that is no JSON
    \cup {Text("none", JsonArray, "none"), Text("none", JsonMalformed, "none")}

\* What one backend does when called: credential present?, transport
\* outcome, completion text.
ResponsesOf(who) ==
    {[key |-> FALSE, net |-> "ok", text |-> NoText]}
    \cup {[key |-> TRUE, net |-> n, text |-> NoText] :
            n \in {"timeout", "http_error", "api_error"}}
    \cup {[key |-> TRUE, net |-> "ok", text |-> t] : t \in TextsOf(who)}

Ok(v) == [ok |-> TRUE, value |-> v, err |-> ""]
Err(e) == [ok |-> FALSE, value |-> <<>>, err |-> e]

\* text.split('```')[1], then the leading 'json' dropped (lines 81-84)
StripFence(t) ==
    IF t.pre \in {"fence", "fence_json"}
    THEN Text("none", t.body,
              IF t.post \in {"fence", "fence_prose"} THEN "none" ELSE t.post)
    ELSE t

\* json.loads: the whole text must be one JSON value
JsonLoads(t) ==
    IF t.pre = "none" /\ t.post = "none" /\ t.body.kind # "malformed"
    THEN Ok(t.body)
    ELSE Err("JSONDecodeError")

\* result.get(key, default)
Get(obj, key, default) ==
    IF key \in obj.keys THEN
        CASE key = "tldr" -> obj.tldr
          [] key = "bullets" -> obj.bullets
          [] key = "video_script" -> obj.video_script
          [] key = "hashtags" -> obj.hashtags
    ELSE default

\* variant: the hashtags are left out of the returned dict
parse_response_no_hashtags(text) ==
    LET loaded == JsonLoads(StripFence(text)) IN
    IF ~loaded.ok THEN loaded
    ELSE IF loaded.value.kind # "object" THEN Err("AttributeError")
    ELSE Ok([tldr |-> Get(loaded.value, "tldr", ""),
             bullets |-> Get(loaded.value, "bullets", <<>>),
             video_script |-> Get(loaded.value, "video_script", ""),
             hashtags |-> <<>>])

\* variant: a decode failure yields an empty summary instead of raising
parse_response_lenient(text) ==
    LET loaded == JsonLoads(StripFence(text)) IN
    IF ~loaded.ok \/ loaded.value.kind # "object"
    THEN Ok([tldr |-> "", bullets |-> <<>>, video_script |-> "",
             hashtags |-> <<>>])
    ELSE Ok([tldr |-> Get(loaded.value, "tldr", ""),
             bullets |-> Get(loaded.value, "bullets", <<>>),
             video_script |-> Get(loaded.value, "video_script", ""),
             hashtags |-> Get(loaded.value, "hashtags", <<>>)])

\* variant: the lists are cut to 8 bullets and 5 hashtags
parse_response_truncating(text) ==
    LET loaded == JsonLoads(StripFence(text))
        b == Get(loaded.value, "bullets", <<>>)
        h == Get(loaded.value, "hashtags", <<>>) IN
    IF ~loaded.ok THEN loaded
    ELSE IF loaded.value.kind # "object" THEN Err("AttributeError")
    ELSE Ok([tldr |-> Get(loaded.value, "tldr", ""),
             bullets |-> IF Len(b) > 8 THEN SubSeq(b, 1, 8) ELSE b,
             video_script |-> Get(loaded.value, "video_script", ""),
             hashtags |-> IF Len(h) > 5 THEN SubSeq(h, 1, 5) ELSE h])

parse_response(text) ==
    LET loaded == JsonLoads(StripFence(text)) IN
    IF ~loaded.ok THEN loaded
    ELSE IF loaded.value.kind # "object" THEN Err("AttributeError")
    ELSE Ok([tldr |-> Get(loaded.value, "tldr", ""),
             bullets |-> Get(loaded.value, "bullets", <<>>),
             video_script |-> Get(loaded.value, "video_script", ""),
             hashtags |-> Get(loaded.value, "hashtags", <<>>)])

\* summarize_with_<provider>: credential check, one network call, parse.
summarize_with(r) ==
    IF ~r.key THEN Err("ValueError: API key not found")
    ELSE IF r.net = "timeout" THEN Err("Timeout")
    ELSE IF r.net = "http_error" THEN Err("HTTPError")
    ELSE IF r.net = "api_error" THEN Err("provider error message")
    ELSE parse_response(r.text)

NoResult == [tldr |-> "none", bullets |-> <<>>, video_script |-> "none",
             hashtags |-> <<>>]
NoErrors == [p \in {} |-> ""]

SumInit ==
    /\ sum_pc = "try_openrouter"
    /\ calls = <<>>
    /\ responses = NoErrors
    /\ errors = NoErrors
    /\ result = NoResult
    /\ raised = NoErrors

SumIdle ==
    /\ sum_pc = "idle"
    /\ calls = <<>>
    /\ responses = NoErrors
    /\ errors = NoErrors
    /\ result = NoResult
    /\ raised = NoErrors

\* One try/except block of summarize_article: call the provider once;
\* return its dict, or record str(e) and fall through to `next`. The last
\* block also raises Exception(f"All AI providers failed: {errors}").
\* variant: a provider's dict is kept but the chain goes on to the next block
TryProviderNoReturn(here, who, next) ==
    /\ sum_pc = here
    /\ \E r \in ResponsesOf(who) :
        LET out == summarize_with(r) IN
        /\ calls' = Append(calls, who)
        /\ responses' = (who :> r) @@ responses
        /\ IF out.ok
           THEN /\ result' = out.value
                /\ sum_pc' = IF next = "raised" THEN "returned" ELSE next
                /\ UNCHANGED <<errors, raised>>
           ELSE /\ errors' = (who :> out.err) @@ errors
                /\ sum_pc' = next
                /\ raised' = IF next = "raised" THEN errors' ELSE raised
                /\ UNCHANGED result
    /\ UNCHANGED notSum

\* variant: every block stores its message under the key 'openrouter'
TryProviderWrongKey(here, who, next) ==
    /\ sum_pc = here
    /\ \E r \in ResponsesOf(who) :
        LET out == summarize_with(r) IN
        /\ calls' = Append(calls, who)
        /\ responses' = (who :> r) @@ responses
        /\ IF out.ok
           THEN /\ result' = out.value
                /\ sum_pc' = "returned"
                /\ UNCHANGED <<errors, raised>>
           ELSE /\ errors' = ("openrouter" :> out.err) @@ errors
                /\ sum_pc' = next
                /\ raised' = IF next = "raised" THEN errors' ELSE raised
                /\ UNCHANGED result
    /\ UNCHANGED notSum

TryProvider(here, who, next) ==
    /\ sum_pc = here
    /\ \E r \in ResponsesOf(who) :
        LET out == summarize_with(r) IN
        /\ calls' = Append(calls, who)
        /\ responses' = (who :> r) @@ responses
        /\ IF out.ok
           THEN /\ result' = out.value
                /\ sum_pc' = "returned"
                /\ UNCHANGED <<errors, raised>>
           ELSE /\ errors' = (who :> out.err) @@ errors
                /\ sum_pc' = next
                /\ raised' = IF next = "raised" THEN errors' ELSE raised
                /\ UNCHANGED result
    /\ UNCHANGED notSum

\* lines 222-227
TryOpenRouter ==
    /\ sum_pc = "try_openrouter"
    /\ TryProvider("try_openrouter", "openrouter", "try_groq")
\* lines 230-235
TryGroq ==
    /\ sum_pc = "try_groq"
    /\ TryProvider("try_groq", "groq", "try_mistral")
\* lines 238-243
TryMistral ==
    /\ sum_pc = "try_mistral"
    /\ TryProvider("try_mistral", "mistral", "try_gemini")
\* lines 246-252
TryGemini ==
    /\ sum_pc = "try_gemini"
    /\ TryProvider("try_gemini", "gemini", "raised")

SumNext == TryOpenRouter \/ TryGroq \/ TryMistral \/ TryGemini

(***************************************************************************)
(* video_generator.py: generate_video                                      *)
(*                                                                         *)
(* Durations are exact rationals <<num, den>> counted in half-seconds, so  *)
(* 1.5 s is 3, 3.5 s is 7 and 2.5 s is 5.                                  *)
(***************************************************************************)
MIN_CHUNK_DURATION == 3
MAX_CHUNK_DURATION == 7
DEFAULT_CHUNK_DURATION == 5

RECURSIVE Gcd(_, _)
Gcd(a, b) == IF b = 0 THEN a ELSE Gcd(b, a % b)

Rat(n, d) == LET g == Gcd(n, d) IN <<n \div g, d \div g>>
RatLt(x, y) == x[1] * y[2] < y[1] * x[2]
RatAdd(x, y) == Rat(x[1] * y[2] + y[1] * x[2], x[2] * y[2])
RatMax(x, y) == IF RatLt(x, y) THEN y ELSE x
RatMin(x, y) == IF RatLt(y, x) THEN y ELSE x
Zero == <<0, 1>>

\* variant: min and max exchanged in the clamp
TimePerChunkSwapped(T, n) ==
    LET raw == IF n > 0 THEN Rat(T, n) ELSE Rat(DEFAULT_CHUNK_DURATION, 1) IN
    RatMin(Rat(MIN_CHUNK_DURATION, 1),
           RatMax(Rat(MAX_CHUNK_DURATION, 1), raw))

\* lines 885-886
TimePerChunk(T, n) ==
    LET raw == IF n > 0 THEN Rat(T, n) ELSE Rat(DEFAULT_CHUNK_DURATION, 1) IN
    RatMax(Rat(MIN_CHUNK_DURATION, 1),
           RatMin(Rat(MAX_CHUNK_DURATION, 1), raw))

\* the duration concatenate_videoclips gives the composite
RECURSIVE SumDur(_)
SumDur(cs) == IF cs = <<>> THEN Zero
              ELSE RatAdd(cs[1].dur, SumDur(Tail(cs)))

NoVideo == [dur |-> Zero, h |-> "none", has_audio |-> FALSE]

VidInit ==
    /\ vid_pc = "tts"
    /\ actual_audio_path = "none"
    /\ disk = {}
    /\ audio = "none"
    /\ audio_duration = 0
    /\ themed_images = 0
    /\ chunks = 0
    /\ time_per_chunk = Zero
    /\ clips = <<>>
    /\ main_video = NoVideo
    /\ render_calls = 0
    /\ render_outcome = "none"
    /\ cleanup_runs = 0
    /\ unlink_calls = 0
    /\ vid_outcome = "running"

VidIdle ==
    /\ vid_pc = "idle"
    /\ actual_audio_path = "none"
    /\ disk = {}
    /\ audio = "none"
    /\ audio_duration = 0
    /\ themed_images = 0
    /\ chunks = 0
    /\ time_per_chunk = Zero
    /\ clips = <<>>
    /\ main_video = NoVideo
    /\ render_calls = 0
    /\ render_outcome = "none"
    /\ cleanup_runs = 0
    /\ unlink_calls = 0
    /\ vid_outcome = "running"

\* An exception before the render leaves through the outer `except`, which
\* prints and re-raises (lines 957-961).
Escape(e) ==
    /\ vid_pc' = "raised"
    /\ vid_outcome' = e

\* lines 863-868: clean the script, synthesize speech. Kokoro writes a .wav,
\* the gTTS fallback writes the .mp3; if both fail the exception escapes.
SynthesizeSpeech ==
    /\ vid_pc = "tts"
    /\ \/ /\ \E path \in {"temp_audio.wav", "temp_audio.mp3"} :
                /\ actual_audio_path' = path
                /\ disk' = disk \cup {path}
          /\ vid_pc' = "load_audio"
          /\ UNCHANGED vid_outcome
       \/ /\ Escape("tts_error")
          /\ UNCHANGED <<actual_audio_path, disk>>
    /\ UNCHANGED <<audio, audio_duration, themed_images, chunks,
                   time_per_chunk, clips, main_video, render_calls,
                   render_outcome, cleanup_runs, unlink_calls>>
    /\ UNCHANGED notVid

\* variant: the audio is opened only when it is attached, after the images
LoadAudioDeferred ==
    /\ vid_pc = "load_audio"
    /\ vid_pc' = "images"
    /\ UNCHANGED <<audio, audio_duration, vid_outcome>>
    /\ UNCHANGED <<actual_audio_path, disk, themed_images, chunks,
                   time_per_chunk, clips, main_video, render_calls,
                   render_outcome, cleanup_runs, unlink_calls>>
    /\ UNCHANGED notVid

\* lines 871-873: AudioFileClip(actual_audio_path), audio.duration
LoadAudio ==
    /\ vid_pc = "load_audio"
    /\ \/ /\ \E T \in 1..MaxAudio : audio_duration' = T
          /\ audio' = "open"
          /\ vid_pc' = "images"
          /\ UNCHANGED vid_outcome
       \/ /\ Escape("audio_error")
          /\ UNCHANGED <<audio, audio_duration>>
    /\ UNCHANGED <<actual_audio_path, disk, themed_images, chunks,
                   time_per_chunk, clips, main_video, render_calls,
                   render_outcome, cleanup_runs, unlink_calls>>
    /\ UNCHANGED notVid

\* line 877: generate_themed_images returns one image per prompt (none when
\* the fallback prompt list is empty), or an import inside it raises.
GenerateImages ==
    /\ vid_pc = "images"
    /\ \/ /\ \E k \in 0..MaxImages : themed_images' = k
          /\ vid_pc' = "chunk"
          /\ UNCHANGED vid_outcome
       \/ /\ Escape("images_error")
          /\ UNCHANGED themed_images
    /\ UNCHANGED <<actual_audio_path, disk, audio, audio_duration, chunks,
                   time_per_chunk, clips, main_video, render_calls,
                   render_outcome, cleanup_runs, unlink_calls>>
    /\ UNCHANGED notVid

\* lines 881-886: chunk the script, compute the time per chunk
ChunkAndPace ==
    /\ vid_pc = "chunk"
    /\ \E n \in 0..MaxChunks :
        /\ chunks' = n
        /\ time_per_chunk' = TimePerChunk(audio_duration, n)
    /\ vid_pc' = "clips"
    /\ UNCHANGED <<actual_audio_path, disk, audio, audio_duration,
                   themed_images, clips, main_video, render_calls,
                   render_outcome, cleanup_runs, unlink_calls, vid_outcome>>
    /\ UNCHANGED notVid

\* lines 892-898: one iteration of the clip loop
BuildClip ==
    /\ vid_pc = "clips"
    /\ Len(clips) < chunks
    /\ LET i == Len(clips) IN
       IF themed_images = 0
       THEN /\ Escape("ZeroDivisionError")
            /\ UNCHANGED clips
       ELSE \/ /\ clips' = Append(clips, [img |-> i % themed_images,
                                          dur |-> time_per_chunk,
                                          h |-> "open"])
               /\ UNCHANGED <<vid_pc, vid_outcome>>
            \/ /\ Escape("clip_error")
               /\ UNCHANGED clips
    /\ UNCHANGED <<actual_audio_path, disk, audio, audio_duration,
                   themed_images, chunks, time_per_chunk, main_video,
                   render_calls, render_outcome, cleanup_runs, unlink_calls>>
    /\ UNCHANGED notVid

\* line 902: concatenate_videoclips(clips); it raises on an empty list
Concatenate ==
    /\ vid_pc = "clips"
    /\ Len(clips) = chunks
    /\ IF clips = <<>>
       THEN /\ Escape("concat_error")
            /\ UNCHANGED main_video
       ELSE \/ /\ main_video' = [dur |-> SumDur(clips), h |-> "open",
                                 has_audio |-> FALSE]
               /\ vid_pc' = "reconcile"
               /\ UNCHANGED vid_outcome
            \/ /\ Escape("concat_error")
               /\ UNCHANGED main_video
    /\ UNCHANGED <<actual_audio_path, disk, audio, audio_duration,
                   themed_images, chunks, time_per_chunk, clips,
                   render_calls, render_outcome, cleanup_runs, unlink_calls>>
    /\ UNCHANGED notVid

\* variant: the longer video is not cut
AdjustDurationNoTrim(video, T) == video

\* lines 905-908: subclip(0, audio_duration) when the video is longer; a
\* shorter video is left as it is
AdjustDuration(video, T) ==
    IF video.dur # Rat(T, 1) /\ RatLt(Rat(T, 1), video.dur)
    THEN [video EXCEPT !.dur = Rat(T, 1)]
    ELSE video

\* lines 905-911: match the audio duration, attach the audio
ReconcileAndAttach ==
    /\ vid_pc = "reconcile"
    /\ main_video' = [AdjustDuration(main_video, audio_duration)
                        EXCEPT !.has_audio = TRUE]
    /\ vid_pc' = "render"
    /\ UNCHANGED <<actual_audio_path, disk, audio, audio_duration,
                   themed_images, chunks, time_per_chunk, clips,
                   render_calls, render_outcome, cleanup_runs, unlink_calls,
                   vid_outcome>>
    /\ UNCHANGED notVid

\* lines 915-931: write_videofile inside try; control then enters finally
Render ==
    /\ vid_pc = "render"
    /\ render_calls' = render_calls + 1
    /\ \E o \in {"ok", "raised"} : render_outcome' = o
    /\ vid_pc' = "finally"
    /\ UNCHANGED <<actual_audio_path, disk, audio, audio_duration,
                   themed_images, chunks, time_per_chunk, clips, main_video,
                   cleanup_runs, unlink_calls, vid_outcome>>
    /\ UNCHANGED notVid

Closed(fails) == IF fails THEN "close_failed" ELSE "closed"

\* variant: the releases follow write_videofile without a finally, so a
\* render that raises skips them
CleanupAfterRender ==
    /\ vid_pc = "finally"
    /\ IF render_outcome = "ok"
       THEN /\ cleanup_runs' = cleanup_runs + 1
            /\ audio' = "closed"
            /\ main_video' = [main_video EXCEPT !.h = "closed"]
            /\ clips' = [i \in 1..Len(clips) |->
                            [clips[i] EXCEPT !.h = "closed"]]
            /\ unlink_calls' = unlink_calls + 1
            /\ disk' = disk \ {actual_audio_path}
            /\ vid_pc' = "returned"
            /\ vid_outcome' = "returned"
       ELSE /\ vid_pc' = "raised"
            /\ vid_outcome' = "render_error"
            /\ UNCHANGED <<cleanup_runs, audio, main_video, clips,
                           unlink_calls, disk>>
    /\ UNCHANGED <<actual_audio_path, audio_duration, themed_images, chunks,
                   time_per_chunk, render_calls, render_outcome>>
    /\ UNCHANGED notVid

\* variant: the releases share one try, so the first that fails ends the
\* block and its exception is what the caller gets
CleanupUnguarded ==
    /\ vid_pc = "finally"
    /\ cleanup_runs' = cleanup_runs + 1
    /\ \E fa \in BOOLEAN :
        IF fa
        THEN /\ audio' = "close_failed"
             /\ vid_pc' = "raised"
             /\ vid_outcome' = "close_error"
             /\ UNCHANGED <<main_video, clips, unlink_calls, disk>>
        ELSE /\ audio' = "closed"
             /\ main_video' = [main_video EXCEPT !.h = "closed"]
             /\ clips' = [i \in 1..Len(clips) |->
                             [clips[i] EXCEPT !.h = "closed"]]
             /\ unlink_calls' = unlink_calls + 1
             /\ disk' = disk \ {actual_audio_path}
             /\ IF render_outcome = "ok"
                THEN vid_pc' = "returned" /\ vid_outcome' = "returned"
                ELSE vid_pc' = "raised" /\ vid_outcome' = "render_error"
    /\ UNCHANGED <<actual_audio_path, audio_duration, themed_images, chunks,
                   time_per_chunk, render_calls, render_outcome>>
    /\ UNCHANGED notVid

\* lines 933-955: the finally block. Every release is wrapped in its own
\* try/except, so a release that fails is logged and the next one runs.
\* Then the pending return or exception of the try block takes effect.
Cleanup ==
    /\ vid_pc = "finally"
    /\ cleanup_runs' = cleanup_runs + 1
    /\ \E fa \in BOOLEAN : audio' = Closed(fa)
    /\ \E fm \in BOOLEAN : main_video' = [main_video EXCEPT !.h = Closed(fm)]
    /\ \E failing \in SUBSET (1..Len(clips)) :
        clips' = [i \in 1..Len(clips) |->
                    [clips[i] EXCEPT !.h = Closed(i \in failing)]]
    /\ unlink_calls' = unlink_calls + 1
    /\ \E fu \in BOOLEAN :
        disk' = IF fu THEN disk ELSE disk \ {actual_audio_path}
    /\ IF render_outcome = "ok"
       THEN vid_pc' = "returned" /\ vid_outcome' = "returned"
       ELSE vid_pc' = "raised" /\ vid_outcome' = "render_error"
    /\ UNCHANGED <<actual_audio_path, audio_duration, themed_images, chunks,
                   time_per_chunk, render_calls, render_outcome>>
    /\ UNCHANGED notVid

VidNext ==
    \/ SynthesizeSpeech
    \/ LoadAudio
    \/ GenerateImages
    \/ ChunkAndPace
    \/ BuildClip
    \/ Concatenate
    \/ ReconcileAndAttach
    \/ Render
    \/ Cleanup

(***************************************************************************)
(* video_generator.py: generate_image_fal                                  *)
(***************************************************************************)
VIDEO_WIDTH == 1080
VIDEO_HEIGHT == 1920
RETRY_ATTEMPTS == 2

NoImage == [w |-> 0, h |-> 0, src |-> "none", box |-> <<0, 0, 0, 0>>]

\* lines 109-122: Image.new('RGB', (VIDEO_WIDTH, VIDEO_HEIGHT)) and a fill
create_gradient_background ==
    [w |-> VIDEO_WIDTH, h |-> VIDEO_HEIGHT, src |-> "gradient",
     box |-> <<0, 0, 0, 0>>]

\* lines 127-142: the centre crop box (left, upper, right, lower). The float
\* products and quotients are truncated by int(); in integers that is \div.
CropBox(orig_width, orig_height, target_width, target_height) ==
    IF orig_width * target_height > target_width * orig_height
    THEN LET new_height == orig_height
             new_width == (new_height * target_width) \div target_height
             left == (orig_width - new_width) \div 2
         IN <<left, 0, left + new_width, new_height>>
    ELSE LET new_width == orig_width
             new_height == (new_width * target_height) \div target_width
             top == (orig_height - new_height) \div 2
         IN <<0, top, new_width, top + new_height>>

EmptyBox(box) == box[3] - box[1] = 0 \/ box[4] - box[2] = 0

\* lines 125-144: crop, then img.resize((target_width, target_height))
resize_and_crop_image(orig_width, orig_height, target_width, target_height) ==
    [w |-> target_width, h |-> target_height, src |-> "fal",
     box |-> CropBox(orig_width, orig_height, target_width, target_height)]

ImgInit ==
    /\ img_pc = "start"
    /\ fal_key \in BOOLEAN
    /\ retry_count \in 0..MaxRetry
    /\ attempt = 0
    /\ fal_calls = 0
    /\ downloads = 0
    /\ sleeps = 0
    /\ image = NoImage
    /\ img_raised = "none"

ImgIdle ==
    /\ img_pc = "idle"
    /\ fal_key = FALSE
    /\ retry_count = RETRY_ATTEMPTS
    /\ attempt = 0
    /\ fal_calls = 0
    /\ downloads = 0
    /\ sleeps = 0
    /\ image = NoImage
    /\ img_raised = "none"

\* variant: the attempts are made whether or not FAL_KEY is set
CheckFalKeyIgnored ==
    /\ img_pc = "start"
    /\ img_pc' = "loop"
    /\ UNCHANGED <<fal_key, retry_count, attempt, fal_calls, downloads,
                   sleeps, image, img_raised>>
    /\ UNCHANGED notImg

\* lines 66-69: without FAL_KEY the gradient is returned at once
CheckFalKey ==
    /\ img_pc = "start"
    /\ IF fal_key
       THEN img_pc' = "loop" /\ UNCHANGED image
       ELSE img_pc' = "returned" /\ image' = create_gradient_background
    /\ UNCHANGED <<fal_key, retry_count, attempt, fal_calls, downloads,
                   sleeps, img_raised>>
    /\ UNCHANGED notImg

\* variant: no except clause around the attempt, the exception escapes
AttemptEscapes(e) ==
    /\ img_pc' = "raised"
    /\ img_raised' = e
    /\ UNCHANGED <<sleeps, image>>

\* lines 101-103: except Exception: print, time.sleep(2), next iteration
AttemptFailed(e) ==
    /\ sleeps' = sleeps + 1
    /\ UNCHANGED <<img_pc, image, img_raised>>

\* lines 74-103: one iteration of `for attempt in range(retry_count)`
Attempt ==
    /\ img_pc = "loop"
    /\ attempt < retry_count
    /\ attempt' = attempt + 1
    /\ fal_calls' = fal_calls + 1
    /\ \/ \* fal_client.run raises
          /\ AttemptFailed("backend_error")
          /\ UNCHANGED downloads
       \/ \* the result is empty, or has no 'images', or an empty list:
          \* nothing is raised, the loop moves on without sleeping
          /\ UNCHANGED <<img_pc, image, img_raised, sleeps, downloads>>
       \/ \* result['images'][0] has no 'url'
          /\ AttemptFailed("KeyError")
          /\ UNCHANGED downloads
       \/ \* requests.get raises, or Image.open rejects the content
          /\ downloads' = downloads + 1
          /\ \E e \in {"download_error", "UnidentifiedImageError"} :
                AttemptFailed(e)
       \/ \* an image of orig_width x orig_height is decoded
          /\ downloads' = downloads + 1
          /\ \E orig_width \in 1..MaxSide, orig_height \in 1..MaxSide :
               LET img == resize_and_crop_image(orig_width, orig_height,
                                                VIDEO_WIDTH, VIDEO_HEIGHT)
               IN \/ /\ img_pc' = "returned"
                     /\ image' = img
                     /\ UNCHANGED <<sleeps, img_raised>>
                  \/ \* resizing an empty crop may be rejected by the library
                     /\ EmptyBox(img.box)
                     /\ AttemptFailed("ValueError")
    /\ UNCHANGED <<fal_key, retry_count>>
    /\ UNCHANGED notImg

\* lines 105-106: the loop ran out, the gradient is returned
AttemptsExhausted ==
    /\ img_pc = "loop"
    /\ attempt = retry_count
    /\ img_pc' = "returned"
    /\ image' = create_gradient_background
    /\ UNCHANGED <<fal_key, retry_count, attempt, fal_calls, downloads,
                   sleeps, img_raised>>
    /\ UNCHANGED notImg

ImgNext == CheckFalKey \/ Attempt \/ AttemptsExhausted

(***************************************************************************)
(* video_generator.py: generate_tts_kokoro                                 *)
(***************************************************************************)
\* line 855 builds temp_audio_{article_id}.mp3; other callers may pass a
\* path with another extension, or one in which ".mp3" occurs twice
OutputPaths ==
    {<<"temp_audio", ToString(id), ".mp3">> : id \in 1..MaxArticle}
        \cup {<<"speech", ".wav">>, <<"speech", ".mp3", ".mp3">>,
              <<"speech">>}

\* line 188: output_path.replace('.mp3', '.wav') replaces every occurrence
ReplaceMp3(path) ==
    [i \in DOMAIN path |-> IF path[i] = ".mp3" THEN ".wav" ELSE path[i]]

TtsInit ==
    /\ tts_pc = "kokoro_import"
    /\ output_path \in OutputPaths
    /\ segments = 0
    /\ engine_calls = <<>>
    /\ kokoro_raised = "none"
    /\ tts_files = {}
    /\ tts_return = <<>>
    /\ tts_raised = "none"

TtsIdle ==
    /\ tts_pc = "idle"
    /\ output_path = <<"speech">>
    /\ segments = 0
    /\ engine_calls = <<>>
    /\ kokoro_raised = "none"
    /\ tts_files = {}
    /\ tts_return = <<>>
    /\ tts_raised = "none"

\* variant: the except clause re-raises instead of falling back
KokoroRaisedNoFallback(stage) ==
    /\ kokoro_raised' = stage
    /\ tts_pc' = "raised"
    /\ tts_raised' = "kokoro_error"
    /\ UNCHANGED <<engine_calls, tts_files, tts_return>>

\* lines 186-191: `except Exception` of the Kokoro block: gTTS synthesizes
\* and saves to output_path, which is returned; an exception raised here, in
\* the handler, leaves the function
KokoroRaised(stage) ==
    /\ kokoro_raised' = stage
    /\ engine_calls' = Append(engine_calls, "gtts")
    /\ \/ /\ tts_files' = tts_files \cup {[path |-> output_path, by |-> "gtts"]}
          /\ tts_return' = output_path
          /\ tts_pc' = "returned"
          /\ UNCHANGED tts_raised
       \/ /\ tts_raised' = "gtts_error"
          /\ tts_pc' = "raised"
          /\ UNCHANGED <<tts_files, tts_return>>

\* lines 164-166: from kokoro import KPipeline; import soundfile, numpy
KokoroImport ==
    /\ tts_pc = "kokoro_import"
    /\ \/ /\ engine_calls' = Append(engine_calls, "kokoro")
          /\ tts_pc' = "kokoro_load"
          /\ UNCHANGED <<kokoro_raised, tts_files, tts_return, tts_raised>>
       \/ KokoroRaised("import")
    /\ UNCHANGED <<output_path, segments>>
    /\ UNCHANGED notTts

\* line 170: KPipeline(lang_code='a', repo_id=...) loads the model
KokoroLoad ==
    /\ tts_pc = "kokoro_load"
    /\ \/ /\ tts_pc' = "kokoro_infer"
          /\ UNCHANGED <<engine_calls, kokoro_raised, tts_files, tts_return,
                         tts_raised>>
       \/ KokoroRaised("load")
    /\ UNCHANGED <<output_path, segments>>
    /\ UNCHANGED notTts

\* lines 173-179: one segment of the generator is collected, the generator
\* ends, or inference raises
KokoroInfer ==
    /\ tts_pc = "kokoro_infer"
    /\ \/ /\ segments < MaxSegments
          /\ segments' = segments + 1
          /\ UNCHANGED <<tts_pc, engine_calls, kokoro_raised, tts_files,
                         tts_return, tts_raised>>
       \/ /\ tts_pc' = "kokoro_write"
          /\ UNCHANGED <<segments, engine_calls, kokoro_raised, tts_files,
                         tts_return, tts_raised>>
       \/ /\ KokoroRaised("inference")
          /\ UNCHANGED segments
    /\ UNCHANGED output_path
    /\ UNCHANGED notTts

\* lines 180-184: sf.write(wav_path, ...) and return wav_path
KokoroWrite ==
    /\ tts_pc = "kokoro_write"
    /\ \/ /\ tts_files' = tts_files \cup
                    {[path |-> ReplaceMp3(output_path), by |-> "kokoro"]}
          /\ tts_return' = ReplaceMp3(output_path)
          /\ tts_pc' = "returned"
          /\ UNCHANGED <<engine_calls, kokoro_raised, tts_raised>>
       \/ KokoroRaised("write")
    /\ UNCHANGED <<output_path, segments>>
    /\ UNCHANGED notTts

TtsNext == KokoroImport \/ KokoroLoad \/ KokoroInfer \/ KokoroWrite

(***************************************************************************)
(* video_generator.py: clean_script_for_tts, chunk_text_for_tiktok         *)
(***************************************************************************)
DEFAULT_WORDS_PER_CHUNK == 4

\* the characters of a script: the two brackets, two letters, and two of
\* the characters \s matches, one of which `.` does not match
Chars == {"[", "]", "a", "b", " ", "\n"}
IsSpace(c) == c \in {" ", "\n"}
Scripts == UNION {[1..n -> Chars] : n \in 0..MaxScriptLen}

\* the first "]" after position i, 0 when there is none
FirstClose(s, i) ==
    LET js == {j \in (i + 1)..Len(s) : s[j] = "]"}
    IN IF js = {} THEN 0 ELSE CHOOSE j \in js : \A m \in js : j <= m

\* the end of the match of \[.*?\] that starts at the "[" at position i, 0
\* when there is none: the lazy .*? stops at the first "]", and `.` matches
\* no line break (the pattern is compiled without re.DOTALL)
TagEnd(s, i) ==
    LET j == FirstClose(s, i)
    IN IF j # 0 /\ \A m \in (i + 1)..(j - 1) : s[m] # "\n" THEN j ELSE 0

\* variant: every bracket character is deleted, whatever stands around it
RECURSIVE DeleteBrackets(_, _)
DeleteBrackets(s, i) ==
    IF i > Len(s) THEN <<>>
    ELSE IF s[i] \in {"[", "]"} THEN DeleteBrackets(s, i + 1)
    ELSE <<s[i]>> \o DeleteBrackets(s, i + 1)

\* re.sub(r'\[.*?\]', '', s) from position i on: matches are found left to
\* right and do not overlap
RECURSIVE RemoveTagsFrom(_, _)
RemoveTagsFrom(s, i) ==
    IF i > Len(s) THEN <<>>
    ELSE IF s[i] = "[" /\ TagEnd(s, i) # 0
         THEN RemoveTagsFrom(s, TagEnd(s, i) + 1)
    ELSE <<s[i]>> \o RemoveTagsFrom(s, i + 1)

\* re.sub(r'\s+', ' ', s) from position i on: every maximal run of
\* whitespace becomes one space
RECURSIVE CollapseWhitespaceFrom(_, _)
CollapseWhitespaceFrom(s, i) ==
    IF i > Len(s) THEN <<>>
    ELSE IF ~IsSpace(s[i]) THEN <<s[i]>> \o CollapseWhitespaceFrom(s, i + 1)
    ELSE IF i > 1 /\ IsSpace(s[i - 1]) THEN CollapseWhitespaceFrom(s, i + 1)
    ELSE <<" ">> \o CollapseWhitespaceFrom(s, i + 1)

\* str.strip()
Strip(s) ==
    LET ink == {i \in 1..Len(s) : ~IsSpace(s[i])}
    IN IF ink = {} THEN <<>>
       ELSE SubSeq(s, CHOOSE i \in ink : \A m \in ink : i <= m,
                      CHOOSE i \in ink : \A m \in ink : i >= m)

\* str.split(): the maximal runs of non-whitespace, in order
RECURSIVE Split(_)
Split(s) ==
    LET ink == {i \in 1..Len(s) : ~IsSpace(s[i])}
    IN IF ink = {} THEN <<>>
       ELSE LET start == CHOOSE i \in ink : \A m \in ink : i <= m
                ends == {e \in start..Len(s) :
                            e = Len(s) \/ IsSpace(s[e + 1])}
                end == CHOOSE e \in ends : \A m \in ends : e <= m
            IN <<SubSeq(s, start, end)>> \o Split(SubSeq(s, end + 1, Len(s)))

\* ' '.join(words)
RECURSIVE Join(_)
Join(words) ==
    IF words = <<>> THEN <<>>
    ELSE IF Len(words) = 1 THEN words[1]
    ELSE words[1] \o <<" ">> \o Join(Tail(words))

\* variant: the final strip() is left out
clean_script_no_strip(s) ==
    CollapseWhitespaceFrom(RemoveTagsFrom(s, 1), 1)

\* lines 198-207
clean_script_for_tts(s) ==
    LET clean_text == RemoveTagsFrom(s, 1)
    IN Strip(CollapseWhitespaceFrom(clean_text, 1))

Min(a, b) == IF a < b THEN a ELSE b

\* lines 226-229: for i in range(i, len(words), k): join words[i:i+k] and
\* keep the chunk when it is not empty
RECURSIVE ChunksFrom(_, _, _)
ChunksFrom(words, i, k) ==
    IF i >= Len(words) THEN <<>>
    ELSE LET chunk == Join(SubSeq(words, i + 1, Min(i + k, Len(words))))
         IN (IF chunk # <<>> THEN <<chunk>> ELSE <<>>)
                \o ChunksFrom(words, i + k, k)

\* variant: the tags are removed by deleting the bracket characters
chunk_text_deleting_brackets(text, k) ==
    LET clean_text == Strip(CollapseWhitespaceFrom(DeleteBrackets(text, 1), 1))
    IN ChunksFrom(Split(clean_text), 0, k)

\* variant: a last chunk of fewer than k words is dropped
chunk_text_full_chunks_only(text, k) ==
    LET clean_text == Strip(CollapseWhitespaceFrom(RemoveTagsFrom(text, 1), 1))
        words == Split(clean_text)
    IN ChunksFrom(SubSeq(words, 1, Len(words) - (Len(words) % k)), 0, k)

\* lines 214-231
chunk_text_for_tiktok(text, k) ==
    LET clean_text == Strip(CollapseWhitespaceFrom(RemoveTagsFrom(text, 1), 1))
        words == Split(clean_text)
    IN ChunksFrom(words, 0, k)

TxtInit ==
    /\ txt_pc = "start"
    /\ script \in Scripts
    /\ clean_script = <<>>
    /\ words_per_chunk = DEFAULT_WORDS_PER_CHUNK
    /\ text_chunks = <<>>

TxtIdle ==
    /\ txt_pc = "idle"
    /\ script = <<>>
    /\ clean_script = <<>>
    /\ words_per_chunk = DEFAULT_WORDS_PER_CHUNK
    /\ text_chunks = <<>>

\* line 864 of generate_video: clean_script = clean_script_for_tts(script)
CleanScript ==
    /\ txt_pc = "start"
    /\ clean_script' = clean_script_for_tts(script)
    /\ txt_pc' = "cleaned"
    /\ UNCHANGED <<script, words_per_chunk, text_chunks>>
    /\ UNCHANGED notTxt

\* line 881 of generate_video chunks the script itself; the tests call the
\* function with other chunk sizes
ChunkText ==
    /\ txt_pc = "cleaned"
    /\ \E k \in 1..MaxWordsPerChunk :
        /\ words_per_chunk' = k
        /\ text_chunks' = chunk_text_for_tiktok(script, k)
    /\ txt_pc' = "chunked"
    /\ UNCHANGED <<script, clean_script>>
    /\ UNCHANGED notTxt

TxtNext == CleanScript \/ ChunkText

(***************************************************************************)
(* video_generator.py: extract_story_subjects, select_style_with_groq,     *)
(* generate_image_prompts_with_groq, generate_themed_images                *)
(*                                                                         *)
(* Strings are sequences of atoms (a letter, a word or a separator); JSON  *)
(* values are records [type, text, items].                                 *)
(***************************************************************************)
Str(t) == [type |-> "str", text |-> t, items |-> <<>>]
Num == [type |-> "num", text |-> <<"1">>, items |-> <<>>]
Null == [type |-> "null", text |-> <<>>, items |-> <<>>]
List(xs) == [type |-> "list", text |-> <<>>, items |-> xs]
Dict == [type |-> "dict", text |-> <<>>, items |-> <<>>]
DictWithArray(xs) == [type |-> "dict_with_array", text |-> <<>>, items |-> xs]

\* str.lower()
Lower(c) ==
    CASE c = "A" -> "a"
      [] c = "B" -> "b"
      [] c = "BRIGHT" -> "bright"
      [] c = "Vibrant" -> "vibrant"
      [] OTHER -> c
LowerStr(t) == [i \in DOMAIN t |-> Lower(t[i])]

\* `needle in hay`
IsSubstring(needle, hay) ==
    \E i \in 0..(Len(hay) - Len(needle)) :
        SubSeq(hay, i + 1, i + Len(needle)) = needle

\* bool(value) of a JSON value
Truthy(v) ==
    CASE v.type = "list" -> v.items # <<>>
      [] v.type = "str" -> v.text # <<>>
      [] v.type = "null" -> FALSE
      [] OTHER -> TRUE

Titles == {<<>>, <<" ">>, <<"A", " ", "b">>}

SubjectKeys == {"main_subject", "visual_keywords", "setting"}
Subjects(main, kw, setting, keys) ==
    [main_subject |-> main, visual_keywords |-> kw, setting |-> setting,
     keys |-> keys]
NoSubjects == Subjects(<<>>, Null, <<>>, {})

\* subjects.get('visual_keywords', default)
GetKeywords(subj, default) ==
    IF "visual_keywords" \in subj.keys THEN subj.visual_keywords ELSE default

\* lines 384-391: the title stands in for the subject; title.split()[0]
\* raises IndexError when the title is not empty but has no word
NoKeySubjects(t) ==
    IF t # <<>> /\ Split(t) = <<>> THEN Err("IndexError")
    ELSE Ok(Subjects(t, List(<<Str(IF t # <<>> THEN Split(t)[1]
                                            ELSE <<"scene">>)>>),
                     <<"general environment">>, SubjectKeys))

\* lines 446-452: the except clause of extract_story_subjects
FailureSubjects(t) ==
    Subjects(t, List(<<Str(t)>>), <<"general">>, SubjectKeys)

\* what the backend may answer to the subjects call: an exception, text that
\* json.loads rejects, JSON that is no object (its .get raises), or an object
\* whose visual_keywords is a list of strings, empty, absent, null or a list
\* of numbers
SubjectObjects ==
    {Subjects(<<"ice">>, kw, <<"arctic">>, SubjectKeys) :
        kw \in {List(<<Str(<<"a">>)>>), List(<<Str(<<"a">>), Str(<<"B">>)>>),
                List(<<>>), Null, List(<<Num>>)}}
        \cup {Subjects(<<"ice">>, Null, <<"arctic">>,
                       SubjectKeys \ {"visual_keywords"})}
SubjectReplies ==
    {[kind |-> k, object |-> NoSubjects] : k \in {"error", "malformed", "array"}}
        \cup {[kind |-> "object", object |-> o] : o \in SubjectObjects}

\* lines 393-452 with the key set: the parsed object is returned as it is
extract_story_subjects(t, reply) ==
    IF reply.kind = "object" THEN reply.object ELSE FailureSubjects(t)

\* lines 312, 370: the default style
DefaultStyle == <<"3D render", ",", "bright", "colors", ",", "vibrant">>

\* str.strip('"\'')
StripQuotes(t) ==
    LET ink == {i \in 1..Len(t) : t[i] \notin {"\"", "'"}}
    IN IF ink = {} THEN <<>>
       ELSE SubSeq(t, CHOOSE i \in ink : \A m \in ink : i <= m,
                      CHOOSE i \in ink : \A m \in ink : i >= m)

StyleReplies ==
    {[kind |-> "error", text |-> <<>>],
     [kind |-> "text", text |-> <<"\"", "neon", "\"", " ">>],
     [kind |-> "text", text |-> <<"BRIGHT", " ", "anime">>]}

\* variant: the chosen style is returned as the backend gave it
select_style_verbatim(reply) ==
    IF reply.kind = "error" THEN DefaultStyle
    ELSE StripQuotes(Strip(reply.text))

\* lines 358-370 with the key set
select_style_with_groq(reply) ==
    IF reply.kind = "error" THEN DefaultStyle
    ELSE LET chosen_style == StripQuotes(Strip(reply.text))
         IN IF ~IsSubstring(<<"bright">>, LowerStr(chosen_style))
               /\ ~IsSubstring(<<"vibrant">>, LowerStr(chosen_style))
            THEN chosen_style \o <<",", "bright", ",", "vibrant", ",",
                                   "eye-catching">>
            ELSE chosen_style

\* the two prompts a reply is made of: one that names "a", one that names
\* no keyword
PromptA == Str(<<"A", " ", "x">>)
PromptX == Str(<<"x">>)
PromptLists(n) == [1..n -> {PromptA, PromptX}]

PromptText(wrap, kind, value) == [net |-> "ok", wrap |-> wrap, kind |-> kind,
                                  value |-> value]
BackendError == [net |-> "error", wrap |-> "bare", kind |-> "malformed",
                 value |-> Null]

\* what the backend may answer to a prompts call for K prompts: an
\* exception; a bare JSON array of 0..K+1 prompts, or one holding a number;
\* an array of K prompts inside a code fence, after prose, or after prose
\* that has a bracket of its own; an object with or without an array in it;
\* text that is no JSON
PromptReplies(K) ==
    {BackendError}
        \cup {PromptText("bare", "json", List(l)) :
                l \in UNION {PromptLists(n) : n \in 0..(K + 1)}}
        \cup {PromptText("bare", "json",
                         List(<<Num>> \o [i \in 1..(K - 1) |-> PromptA]))}
        \cup {PromptText(w, "json", List([i \in 1..K |-> p])) :
                w \in {"fenced", "prose", "brackets_in_prose"},
                p \in {PromptA, PromptX}}
        \cup {PromptText("bare", "json", Dict),
              PromptText("prose", "json", Dict),
              PromptText("bare", "json", DictWithArray([i \in 1..K |-> PromptA])),
              PromptText("bare", "malformed", Null)}

\* lines 497-519: the content of a code fence is taken, then the span from
\* the first "[" to the last "]" if there is one, then json.loads
parse_json_response(text) ==
    IF text.wrap = "brackets_in_prose" \/ text.kind = "malformed"
    THEN Err("JSONDecodeError")
    ELSE IF text.value.type \in {"list", "dict_with_array"}
         THEN Ok(List(text.value.items))
    ELSE IF text.wrap = "prose" THEN Err("JSONDecodeError")
    ELSE Ok(text.value)

\* lines 521-550: the indices of the prompts that are no string or contain
\* none of the keywords; with no keyword every string passes
validate_prompts(items, visual_keywords) ==
    LET keywords_lower ==
            IF Truthy(visual_keywords)
            THEN [i \in DOMAIN visual_keywords.items |->
                    LowerStr(visual_keywords.items[i].text)]
            ELSE <<>>
        has_keyword(prompt) ==
            IF keywords_lower # <<>>
            THEN \E i \in DOMAIN keywords_lower :
                    IsSubstring(keywords_lower[i], LowerStr(prompt.text))
            ELSE TRUE
    IN {i \in DOMAIN items :
            items[i].type # "str" \/ ~has_keyword(items[i])}

\* lines 486-494: the keywords the prompts are validated against
PromptKeywords(subj, t) ==
    IF subj.keys # {} THEN GetKeywords(subj, List(<<>>))
    ELSE List(<<Str(t)>>)

\* line 490: ', '.join(visual_keywords) raises TypeError on a non-string
JoinRaises(visual_keywords) ==
    /\ Truthy(visual_keywords)
    /\ \E i \in DOMAIN visual_keywords.items :
            visual_keywords.items[i].type # "str"

\* the two chat.completions.create calls: temperature in tenths, and
\* whether the stricter instruction is sent
FirstCall == [fn |-> "prompts", temperature |-> 7, strict |-> FALSE]
\* variant: the retry repeats the first call unchanged
RetryCallUnchanged == [fn |-> "prompts", temperature |-> 7, strict |-> FALSE]
\* lines 657-667
RetryCall == [fn |-> "prompts", temperature |-> 5, strict |-> TRUE]

Return(v) == [next |-> "return", value |-> v]
Retry == [next |-> "retry", value |-> Null]

\* variant: every failure of the first response leads to the retry
AfterFirstReplyAlwaysRetry(reply, K, visual_keywords) ==
    LET parsed == parse_json_response(reply)
    IN IF reply.net = "ok" /\ parsed.ok /\ parsed.value.type = "list"
          /\ Len(parsed.value.items) >= K
          /\ validate_prompts(SubSeq(parsed.value.items, 1, K),
                              visual_keywords) = {}
       THEN Return(List(SubSeq(parsed.value.items, 1, K)))
       ELSE Retry

\* lines 633-655 and 693-695: what follows the first reply
AfterFirstReply(reply, K, visual_keywords) ==
    LET parsed == parse_json_response(reply)
    IN IF reply.net = "error" THEN Return(Null)
       ELSE IF ~parsed.ok THEN Return(Null)
       ELSE IF parsed.value.type # "list" \/ Len(parsed.value.items) < K
            THEN Return(Null)
       ELSE IF validate_prompts(SubSeq(parsed.value.items, 1, K),
                                visual_keywords) = {}
            THEN Return(List(SubSeq(parsed.value.items, 1, K)))
       ELSE Retry

\* lines 670-695: what the function returns after the retry's reply
AfterRetryReply(reply, K, visual_keywords) ==
    LET parsed == parse_json_response(reply)
    IN IF reply.net = "error" THEN Null
       ELSE IF ~parsed.ok THEN Null
       ELSE IF parsed.value.type # "list" \/ Len(parsed.value.items) < K
            THEN Null
       ELSE IF validate_prompts(SubSeq(parsed.value.items, 1, K),
                                visual_keywords) = {}
            THEN List(SubSeq(parsed.value.items, 1, K))
       ELSE Null

\* line 741: f"{kw}, {setting}, {style}"
FallbackPrompt(kw, setting, chosen) ==
    Str(kw.text \o <<",">> \o setting \o <<",">> \o chosen)

\* lines 739-741: (keywords * 3)[:num_images], one prompt per keyword
FallbackPrompts(subj, t, chosen, K) ==
    LET keywords == GetKeywords(subj, List(<<Str(t)>>)).items
        setting == IF "setting" \in subj.keys THEN subj.setting ELSE <<>>
        tripled == keywords \o keywords \o keywords
    IN [i \in 1..Min(K, Len(tripled)) |->
            FallbackPrompt(tripled[i], setting, chosen)]

AnInit ==
    /\ an_pc = "subjects"
    /\ groq_key \in BOOLEAN
    /\ title \in Titles
    /\ num_images \in 1..MaxPrompts
    /\ subjects = NoSubjects
    /\ style = <<>>
    /\ groq_log = <<>>
    /\ prompt_replies = <<>>
    /\ prompts = Null
    /\ prompt_list = <<>>
    /\ image_prompts = <<>>
    /\ an_raised = "none"

AnIdle ==
    /\ an_pc = "idle"
    /\ groq_key = FALSE
    /\ title = <<>>
    /\ num_images = 1
    /\ subjects = NoSubjects
    /\ style = <<>>
    /\ groq_log = <<>>
    /\ prompt_replies = <<>>
    /\ prompts = Null
    /\ prompt_list = <<>>
    /\ image_prompts = <<>>
    /\ an_raised = "none"

\* an exception leaves generate_themed_images, which has no try
AnRaise(e) ==
    /\ an_pc' = "raised"
    /\ an_raised' = e

\* line 728: subjects = extract_story_subjects(title, script)
ExtractSubjects ==
    /\ an_pc = "subjects"
    /\ IF ~groq_key
       THEN /\ IF NoKeySubjects(title).ok
               THEN /\ subjects' = NoKeySubjects(title).value
                    /\ an_pc' = "style"
                    /\ UNCHANGED an_raised
               ELSE /\ AnRaise(NoKeySubjects(title).err)
                    /\ UNCHANGED subjects
            /\ UNCHANGED groq_log
       ELSE /\ groq_log' = Append(groq_log, [fn |-> "subjects",
                                             temperature |-> 3,
                                             strict |-> FALSE])
            /\ \E reply \in SubjectReplies :
                    subjects' = extract_story_subjects(title, reply)
            /\ an_pc' = "style"
            /\ UNCHANGED an_raised
    /\ UNCHANGED <<groq_key, title, num_images, style, prompt_replies,
                   prompts, prompt_list, image_prompts>>
    /\ UNCHANGED notAn

\* line 731: style = select_style_with_groq(title, script)
SelectStyle ==
    /\ an_pc = "style"
    /\ IF ~groq_key
       THEN /\ style' = DefaultStyle
            /\ UNCHANGED groq_log
       ELSE /\ groq_log' = Append(groq_log, [fn |-> "style",
                                             temperature |-> 5,
                                             strict |-> FALSE])
            /\ \E reply \in StyleReplies :
                    style' = select_style_with_groq(reply)
    /\ an_pc' = "prompts"
    /\ UNCHANGED <<groq_key, title, num_images, subjects, prompt_replies,
                   prompts, prompt_list, image_prompts, an_raised>>
    /\ UNCHANGED notAn

\* lines 476-655: generate_image_prompts_with_groq up to the first reply
FirstPromptCall ==
    /\ an_pc = "prompts"
    /\ IF ~groq_key
       THEN /\ prompts' = Null
            /\ an_pc' = "build_list"
            /\ UNCHANGED <<groq_log, prompt_replies, an_raised>>
       ELSE IF JoinRaises(PromptKeywords(subjects, title))
       THEN /\ AnRaise("TypeError")
            /\ UNCHANGED <<groq_log, prompt_replies, prompts>>
       ELSE /\ groq_log' = Append(groq_log, FirstCall)
            /\ \E reply \in PromptReplies(num_images) :
                LET after == AfterFirstReply(reply, num_images,
                                    PromptKeywords(subjects, title))
                IN /\ prompt_replies' = Append(prompt_replies, reply)
                   /\ IF after.next = "retry"
                      THEN an_pc' = "retry" /\ UNCHANGED prompts
                      ELSE an_pc' = "build_list" /\ prompts' = after.value
            /\ UNCHANGED an_raised
    /\ UNCHANGED <<groq_key, title, num_images, subjects, style,
                   prompt_list, image_prompts>>
    /\ UNCHANGED notAn

\* lines 657-695: the retry call and what is made of its reply
RetryPromptCall ==
    /\ an_pc = "retry"
    /\ groq_log' = Append(groq_log, RetryCall)
    /\ \E reply \in PromptReplies(num_images) :
        /\ prompt_replies' = Append(prompt_replies, reply)
        /\ prompts' = AfterRetryReply(reply, num_images,
                                      PromptKeywords(subjects, title))
    /\ an_pc' = "build_list"
    /\ UNCHANGED <<groq_key, title, num_images, subjects, style,
                   prompt_list, image_prompts, an_raised>>
    /\ UNCHANGED notAn

\* lines 737-741: `if not prompts` builds the fallback list; multiplying a
\* visual_keywords that is null raises TypeError
BuildPromptList ==
    /\ an_pc = "build_list"
    /\ IF Truthy(prompts)
       THEN /\ prompt_list' = prompts.items
            /\ an_pc' = "images"
            /\ UNCHANGED an_raised
       ELSE IF GetKeywords(subjects, List(<<Str(title)>>)).type # "list"
       THEN /\ AnRaise("TypeError")
            /\ UNCHANGED prompt_list
       ELSE /\ prompt_list' = FallbackPrompts(subjects, title, style,
                                              num_images)
            /\ an_pc' = "images"
            /\ UNCHANGED an_raised
    /\ UNCHANGED <<groq_key, title, num_images, subjects, style, groq_log,
                   prompt_replies, prompts, image_prompts>>
    /\ UNCHANGED notAn

\* lines 745-748: one iteration of the image loop
AcquireImage ==
    /\ an_pc = "images"
    /\ Len(image_prompts) < Len(prompt_list)
    /\ image_prompts' = Append(image_prompts,
                               prompt_list[Len(image_prompts) + 1])
    /\ UNCHANGED <<an_pc, groq_key, title, num_images, subjects, style,
                   groq_log, prompt_replies, prompts, prompt_list, an_raised>>
    /\ UNCHANGED notAn

\* lines 750-751: return images
ReturnImages ==
    /\ an_pc = "images"
    /\ Len(image_prompts) = Len(prompt_list)
    /\ an_pc' = "returned"
    /\ UNCHANGED <<groq_key, title, num_images, subjects, style, groq_log,
                   prompt_replies, prompts, prompt_list, image_prompts,
                   an_raised>>
    /\ UNCHANGED notAn

AnNext ==
    \/ ExtractSubjects
    \/ SelectStyle
    \/ FirstPromptCall
    \/ RetryPromptCall
    \/ BuildPromptList
    \/ AcquireImage
    \/ ReturnImages

(***************************************************************************)
(* app.py: the scrape, summarize and video endpoints over the articles     *)
(* table (models.py), served by the worker processes of gunicorn.conf.py.  *)
(*                                                                         *)
(* A row keeps the columns the endpoints branch on or write: url, status,  *)
(* tldr, bullets, video_script and video_path; the summary columns hold    *)
(* JSON values, Null for a column never written.  Every                    *)
(* commit is one atomic step of the database; rows are never deleted here. *)
(* `response` is the HTTP response the step just taken sent, NoResponse if *)
(* it sent none.                                                           *)
(***************************************************************************)
Workers == {"w1", "w2"}
Urls == {"u1", "u2"}
\* ids a request can name: the rows that can exist and one that never does
Ids == 1..(Cardinality(Urls) + 1)

None == "None"
\* the dicts summarize_article may return (parse_response, lines 86-93):
\* from a JSON object with all four fields, and from {"video_script": null},
\* where the other three take their defaults
SummaryResults ==
    {[tldr |-> Str(<<"tldr">>), bullets |-> List(<<Str(<<"b">>)>>),
      video_script |-> Str(<<"script">>), hashtags |-> List(<<Str(<<"#h">>)>>)],
     [tldr |-> Str(<<>>), bullets |-> List(<<>>),
      video_script |-> Null, hashtags |-> List(<<>>)]}

\* json.dumps of a list of strings or of null
RECURSIVE DumpItems(_)
DumpItems(xs) ==
    IF xs = <<>> THEN <<>>
    ELSE <<"\"">> \o xs[1].text \o <<"\"">>
            \o (IF Len(xs) > 1 THEN <<",">> ELSE <<>>) \o DumpItems(Tail(xs))
json_dumps(v) ==
    IF v.type = "null" THEN Str(<<"null">>)
    ELSE Str(<<"[">> \o DumpItems(v.items) \o <<"]">>)

\* str(e) of the exception a pipeline call raised
ExcMessages == {"All AI providers failed: {'groq': 'API Error'}",
                "Video rendering failed"}

NewArticle(u) ==
    [url |-> u, status |-> "scraped", tldr |-> Null, bullets |-> Null,
     video_script |-> Null, video_path |-> None]

\* json.loads of a text json.dumps wrote
RECURSIVE LoadItems(_)
LoadItems(t) ==
    IF t = <<>> THEN <<>>
    ELSE LET close == CHOOSE i \in 2..Len(t) :
                        /\ t[i] = "\""
                        /\ \A j \in 2..(i - 1) : t[j] # "\""
             rest == SubSeq(t, close + 1, Len(t))
         IN <<Str(SubSeq(t, 2, close - 1))>>
                \o LoadItems(IF rest # <<>> /\ rest[1] = ","
                             THEN Tail(rest) ELSE rest)
json_loads(s) ==
    IF s.text = <<"null">> THEN Null
    ELSE List(LoadItems(SubSeq(s.text, 2, Len(s.text) - 1)))

\* Article.to_dict, what a read of the row returns: the columns of the table
to_dict(row) ==
    [url |-> row.url, status |-> row.status, tldr |-> row.tldr,
     bullets |-> IF Truthy(row.bullets) THEN json_loads(row.bullets)
                 ELSE Null,
     video_script |-> row.video_script, video_path |-> row.video_path]

\* Article.query.filter_by(url=url).first()
Existing(u) == {id \in DOMAIN articles : articles[id].url = u}

\* the unique constraint on articles.url
IntegrityError(u) == \E id \in DOMAIN articles : articles[id].url = u

\* `not article.video_script` is false
HasScript(a) == Truthy(a.video_script)

Idle == [endpoint |-> "idle", pc |-> "idle", url |-> "", id |-> 0]
\* a response: the status code, the message or error text of the body, the
\* id of the article in the body (0 if none) and, beside it, the exception
\* the handler met ("" if none)
NoResponse ==
    [endpoint |-> "none", code |-> 0, text |-> "", article |-> 0, exc |-> ""]
Response(e, c, t, id) ==
    [endpoint |-> e, code |-> c, text |-> t, article |-> id, exc |-> ""]

SUMMARY_FAILED == "Failed to generate summary. Please try again later."
VIDEO_FAILED == "Failed to generate video. Please try again later."

ApiInit ==
    /\ articles = <<>>
    /\ workers = [w \in Workers |-> Idle]
    /\ response = NoResponse

ApiIdle ==
    /\ articles = <<>>
    /\ workers = [w \in Workers |-> Idle]
    /\ response = NoResponse

\* a worker process accepts the next request and routes it to its endpoint
Receive(w) ==
    /\ workers[w].pc = "idle"
    /\ \/ \E u \in Urls \cup {""} :
            workers' = [workers EXCEPT
                ![w] = [endpoint |-> "scrape", pc |-> "received", url |-> u,
                        id |-> 0]]
       \/ \E e \in {"summarize", "video"}, id \in Ids :
            workers' = [workers EXCEPT
                ![w] = [endpoint |-> e, pc |-> "received", url |-> "",
                        id |-> id]]
    /\ response' = NoResponse
    /\ UNCHANGED articles
    /\ UNCHANGED notApi

\* scrape_article up to the lookup, lines 204-228 (scrape_url, lines 259-272,
\* repeats the lookup); a request without url stands for the rejected bodies
ScrapeLookup(w) ==
    /\ workers[w].pc = "received"
    /\ workers[w].endpoint = "scrape"
    /\ LET e == workers[w].endpoint
           u == workers[w].url
       IN IF u = ""
          THEN /\ response' = Response(e, 400, "URL is required", 0)
               /\ workers' = [workers EXCEPT ![w] = Idle]
          ELSE IF Existing(u) # {}
          THEN /\ response' = Response(e, 200, "Article already exists",
                                    CHOOSE id \in Existing(u) : TRUE)
               /\ workers' = [workers EXCEPT ![w] = Idle]
          ELSE /\ workers' = [workers EXCEPT ![w].pc = "insert"]
               /\ response' = NoResponse
    /\ UNCHANGED articles
    /\ UNCHANGED notApi

\* variant: the row is added whether or not its url is stored
ScrapeInsertUnconstrained(w) ==
    /\ workers[w].pc = "insert"
    /\ workers[w].endpoint = "scrape"
    /\ articles' = Append(articles, NewArticle(workers[w].url))
    /\ response' = Response("scrape", 201, "Article scraped successfully",
                            Len(articles) + 1)
    /\ workers' = [workers EXCEPT ![w] = Idle]
    /\ UNCHANGED notApi

\* scrape_article, lines 227-245: add the row and commit
ScrapeInsert(w) ==
    /\ workers[w].pc = "insert"
    /\ workers[w].endpoint = "scrape"
    /\ IF IntegrityError(workers[w].url)
       THEN \* the commit raises outside any try
            /\ response' = [Response("scrape", 500, "Internal Server Error", 0)
                                EXCEPT !.exc = "IntegrityError"]
            /\ UNCHANGED articles
       ELSE /\ articles' = Append(articles, NewArticle(workers[w].url))
            /\ response' = Response("scrape", 201,
                                    "Article scraped successfully",
                                    Len(articles) + 1)
    /\ workers' = [workers EXCEPT ![w] = Idle]
    /\ UNCHANGED notApi

\* Article.query.get_or_404(article_id) finds no row: lines 336, 371
NotFound(w) ==
    /\ workers[w].pc = "received"
    /\ workers[w].endpoint \in {"summarize", "video"}
    /\ workers[w].id \notin DOMAIN articles
    /\ response' = Response(workers[w].endpoint, 404, "Not Found", 0)
    /\ workers' = [workers EXCEPT ![w] = Idle]
    /\ UNCHANGED articles
    /\ UNCHANGED notApi

\* summarize_article_endpoint, lines 336-340
SummarizeBegin(w) ==
    /\ workers[w].pc = "received"
    /\ workers[w].endpoint = "summarize"
    /\ workers[w].id \in DOMAIN articles
    /\ articles' = [articles EXCEPT ![workers[w].id].status = "summarizing"]
    /\ workers' = [workers EXCEPT ![w].pc = "pipeline"]
    /\ response' = NoResponse
    /\ UNCHANGED notApi

\* lines 342-359: summarize_article returned
SummarizeReturn(w) ==
    /\ workers[w].pc = "pipeline"
    /\ workers[w].endpoint = "summarize"
    /\ \E summary \in SummaryResults :
            \* line 350 sets `hashtags`, which is no column: it is not stored
            articles' = [articles EXCEPT
                ![workers[w].id].tldr = summary.tldr,
                ![workers[w].id].bullets = json_dumps(summary.bullets),
                ![workers[w].id].video_script = summary.video_script,
                ![workers[w].id].status = "summarized"]
    /\ response' = Response("summarize", 200,
                            "Article summarized successfully", workers[w].id)
    /\ workers' = [workers EXCEPT ![w] = Idle]
    /\ UNCHANGED notApi

\* variant: the handler answers with the text of the exception
SummarizeRaiseVerbose(w) ==
    /\ workers[w].pc = "pipeline"
    /\ workers[w].endpoint = "summarize"
    /\ \E e \in ExcMessages :
            response' = [Response("summarize", 500, e, 0) EXCEPT !.exc = e]
    /\ articles' = [articles EXCEPT ![workers[w].id].status = "failed"]
    /\ workers' = [workers EXCEPT ![w] = Idle]
    /\ UNCHANGED notApi

\* lines 361-365: summarize_article raised
SummarizeRaise(w) ==
    /\ workers[w].pc = "pipeline"
    /\ workers[w].endpoint = "summarize"
    /\ \E e \in ExcMessages :
            response' = [Response("summarize", 500, SUMMARY_FAILED, 0)
                            EXCEPT !.exc = e]
    /\ articles' = [articles EXCEPT ![workers[w].id].status = "failed"]
    /\ workers' = [workers EXCEPT ![w] = Idle]
    /\ UNCHANGED notApi

\* variant: the status is written before the script is looked at
VideoBeginUnchecked(w) ==
    /\ workers[w].pc = "received"
    /\ workers[w].endpoint = "video"
    /\ workers[w].id \in DOMAIN articles
    /\ articles' = [articles EXCEPT
                        ![workers[w].id].status = "generating_video"]
    /\ workers' = [workers EXCEPT ![w].pc = "pipeline"]
    /\ response' = NoResponse
    /\ UNCHANGED notApi

\* generate_video_endpoint, lines 371-378
VideoBegin(w) ==
    /\ workers[w].pc = "received"
    /\ workers[w].endpoint = "video"
    /\ workers[w].id \in DOMAIN articles
    /\ IF ~HasScript(articles[workers[w].id])
       THEN /\ response' =
                    Response("video", 400, "Article must be summarized first", 0)
            /\ workers' = [workers EXCEPT ![w] = Idle]
            /\ UNCHANGED articles
       ELSE /\ articles' = [articles EXCEPT
                                ![workers[w].id].status = "generating_video"]
            /\ workers' = [workers EXCEPT ![w].pc = "pipeline"]
            /\ response' = NoResponse
    /\ UNCHANGED notApi

\* lines 380-401: generate_video returned
VideoReturn(w) ==
    /\ workers[w].pc = "pipeline"
    /\ workers[w].endpoint = "video"
    /\ articles' = [articles EXCEPT
            ![workers[w].id].video_path = "article.mp4",
            ![workers[w].id].status = "video_done"]
    /\ response' = Response("video", 200, "Video generated successfully",
                            workers[w].id)
    /\ workers' = [workers EXCEPT ![w] = Idle]
    /\ UNCHANGED notApi

\* lines 403-407: generate_video raised
VideoRaise(w) ==
    /\ workers[w].pc = "pipeline"
    /\ workers[w].endpoint = "video"
    /\ \E e \in ExcMessages :
            response' = [Response("video", 500, VIDEO_FAILED, 0)
                            EXCEPT !.exc = e]
    /\ articles' = [articles EXCEPT ![workers[w].id].status = "failed"]
    /\ workers' = [workers EXCEPT ![w] = Idle]
    /\ UNCHANGED notApi

\* gunicorn.conf.py lines 11-13: a sync worker that has not finished its
\* request within `timeout` seconds is killed and restarted by the master.
\* The pipeline calls are the steps that take that long.  The handler's
\* `except Exception` does not run, nothing is committed and no response is
\* sent; the restarted worker is idle.
WorkerTimeout(w) ==
    /\ workers[w].pc = "pipeline"
    /\ workers' = [workers EXCEPT ![w] = Idle]
    /\ response' = NoResponse
    /\ UNCHANGED articles
    /\ UNCHANGED notApi

ApiNext ==
    \E w \in Workers :
        \/ Receive(w)
        \/ ScrapeLookup(w)
        \/ ScrapeInsert(w)
        \/ NotFound(w)
        \/ SummarizeBegin(w)
        \/ SummarizeReturn(w)
        \/ SummarizeRaise(w)
        \/ VideoBegin(w)
        \/ VideoReturn(w)
        \/ VideoRaise(w)
        \/ WorkerTimeout(w)

(***************************************************************************)
(* video_generator.py: generate_video invocations running side by side in  *)
(* the worker processes, over the one videos directory.                    *)
(*                                                                         *)
(* A path is the sequence of the parts its f-string joins.  The clock is   *)
(* in milliseconds.                                                        *)
(***************************************************************************)
Invocations == {"g1", "g2"}
ArticleIds == {1, 2}
\* clock readings: two instants of one second and one of the next
Instants == {0, 1, 1000}
MS_PER_SECOND == 1000

\* datetime.now().strftime('%Y%m%d_%H%M%S'): the clock to the second
Timestamp(t) == ToString(t \div MS_PER_SECOND)

\* line 854
OutputPath(id, t) == <<"article", ToString(id), Timestamp(t), ".mp4">>

\* line 855
TempAudioPath(id) == <<"temp_audio", ToString(id), ".mp3">>

\* line 801: int(time.time() * 1000)
TempImgPath(t) == <<"temp_img", ToString(t), ".jpg">>

NoPath == <<>>
NotRunning ==
    [pc |-> "idle", article_id |-> 0, output_path |-> NoPath,
     actual_audio_path |-> NoPath, temp_img_path |-> NoPath]

RunInit ==
    /\ now = 0
    /\ runs = [g \in Invocations |-> NotRunning]
    /\ videos_dir = {}

RunIdle ==
    /\ now = 0
    /\ runs = [g \in Invocations |-> NotRunning]
    /\ videos_dir = {}

\* time passes
Tick ==
    /\ \E t \in Instants :
            /\ t > now
            /\ now' = t
    /\ UNCHANGED <<runs, videos_dir>>
    /\ UNCHANGED notRun

\* lines 852-855: the paths of the invocation
Start(g) ==
    /\ runs[g].pc = "idle"
    /\ \E id \in ArticleIds :
            runs' = [runs EXCEPT
                ![g] = [pc |-> "tts", article_id |-> id,
                        output_path |-> OutputPath(id, now),
                        actual_audio_path |-> NoPath,
                        temp_img_path |-> NoPath]]
    /\ UNCHANGED <<now, videos_dir>>
    /\ UNCHANGED notRun

\* an exception leaves generate_video before the render: lines 957-961
Fail(g) == runs' = [runs EXCEPT ![g].pc = "failed"]

\* line 868: generate_tts_kokoro writes the .wav, or its fallback the .mp3
Speak(g) ==
    /\ runs[g].pc = "tts"
    /\ \/ /\ \E path \in {TempAudioPath(runs[g].article_id),
                          ReplaceMp3(TempAudioPath(runs[g].article_id))} :
                /\ runs' = [runs EXCEPT ![g].pc = "load",
                                        ![g].actual_audio_path = path]
                /\ videos_dir' = videos_dir \cup {path}
       \/ /\ Fail(g)
          /\ UNCHANGED videos_dir
    /\ UNCHANGED now
    /\ UNCHANGED notRun

\* line 871: AudioFileClip(actual_audio_path) opens the file
OpenAudio(g) ==
    /\ runs[g].pc = "load"
    /\ IF runs[g].actual_audio_path \in videos_dir
       THEN runs' = [runs EXCEPT ![g].pc = "clips"]
       ELSE Fail(g)
    /\ UNCHANGED <<now, videos_dir>>
    /\ UNCHANGED notRun

\* create_clip_with_broll, lines 800-805: the darkened image is saved
SaveImage(g) ==
    /\ runs[g].pc = "clips"
    /\ runs' = [runs EXCEPT ![g].pc = "img_saved",
                            ![g].temp_img_path = TempImgPath(now)]
    /\ videos_dir' = videos_dir \cup {TempImgPath(now)}
    /\ UNCHANGED now
    /\ UNCHANGED notRun

\* line 808: ImageClip reads the saved file
ReadImage(g) ==
    /\ runs[g].pc = "img_saved"
    /\ IF runs[g].temp_img_path \in videos_dir
       THEN runs' = [runs EXCEPT ![g].pc = "img_read"]
       ELSE Fail(g)
    /\ UNCHANGED <<now, videos_dir>>
    /\ UNCHANGED notRun

\* lines 811-814: the file is unlinked; a failure is swallowed
UnlinkImage(g) ==
    /\ runs[g].pc = "img_read"
    /\ videos_dir' = videos_dir \ {runs[g].temp_img_path}
    /\ runs' = [runs EXCEPT ![g].pc = "clips"]
    /\ UNCHANGED now
    /\ UNCHANGED notRun

\* lines 915-932: write_videofile reads the audio and writes output_path
WriteVideo(g) ==
    /\ runs[g].pc = "clips"
    /\ \/ /\ runs[g].actual_audio_path \in videos_dir
          /\ videos_dir' = videos_dir \cup {runs[g].output_path}
          /\ runs' = [runs EXCEPT ![g].pc = "rendered"]
       \/ /\ runs' = [runs EXCEPT ![g].pc = "render_failed"]
          /\ UNCHANGED videos_dir
    /\ UNCHANGED now
    /\ UNCHANGED notRun

\* lines 934-955: the finally block unlinks the audio file
Unlink(g) ==
    /\ runs[g].pc \in {"rendered", "render_failed"}
    /\ videos_dir' = videos_dir \ {runs[g].actual_audio_path}
    /\ runs' = [runs EXCEPT
            ![g].pc = IF runs[g].pc = "rendered" THEN "done" ELSE "failed"]
    /\ UNCHANGED now
    /\ UNCHANGED notRun

RunNext ==
    \/ Tick
    \/ \E g \in Invocations :
        \/ Start(g)
        \/ Speak(g)
        \/ OpenAudio(g)
        \/ SaveImage(g)
        \/ ReadImage(g)
        \/ UnlinkImage(g)
        \/ WriteVideo(g)
        \/ Unlink(g)

(***************************************************************************)
(* Specifications                                                          *)
(***************************************************************************)
SummarizeInit ==
    /\ SumInit
    /\ VidIdle
    /\ ImgIdle
    /\ TtsIdle
    /\ TxtIdle
    /\ AnIdle
    /\ ApiIdle
    /\ RunIdle
VideoInit ==
    /\ VidInit
    /\ SumIdle
    /\ ImgIdle
    /\ TtsIdle
    /\ TxtIdle
    /\ AnIdle
    /\ ApiIdle
    /\ RunIdle
ImageInit ==
    /\ ImgInit
    /\ SumIdle
    /\ VidIdle
    /\ TtsIdle
    /\ TxtIdle
    /\ AnIdle
    /\ ApiIdle
    /\ RunIdle
SpeechInit ==
    /\ TtsInit
    /\ SumIdle
    /\ VidIdle
    /\ ImgIdle
    /\ TxtIdle
    /\ AnIdle
    /\ ApiIdle
    /\ RunIdle
TextInit ==
    /\ TxtInit
    /\ SumIdle
    /\ VidIdle
    /\ ImgIdle
    /\ TtsIdle
    /\ AnIdle
    /\ ApiIdle
    /\ RunIdle
AnalyzeInit ==
    /\ AnInit
    /\ SumIdle
    /\ VidIdle
    /\ ImgIdle
    /\ TtsIdle
    /\ TxtIdle
    /\ ApiIdle
    /\ RunIdle
ArticleInit ==
    /\ ApiInit
    /\ SumIdle
    /\ VidIdle
    /\ ImgIdle
    /\ TtsIdle
    /\ TxtIdle
    /\ AnIdle
    /\ RunIdle
ConcurrentRunsInit ==
    /\ RunInit
    /\ SumIdle
    /\ VidIdle
    /\ ImgIdle
    /\ TtsIdle
    /\ TxtIdle
    /\ AnIdle
    /\ ApiIdle
SummarizeSpec == SummarizeInit /\ [][SumNext]_vars
VideoSpec == VideoInit /\ [][VidNext]_vars
ImageSpec == ImageInit /\ [][ImgNext]_vars
SpeechSpec == SpeechInit /\ [][TtsNext]_vars
TextSpec == TextInit /\ [][TxtNext]_vars
AnalyzeSpec == AnalyzeInit /\ [][AnNext]_vars
ArticleSpec == ArticleInit /\ [][ApiNext]_vars
ConcurrentRunsSpec == ConcurrentRunsInit /\ [][RunNext]_vars

(***************************************************************************)
(* Properties of summarize_article                                         *)
(***************************************************************************)
Invoked(p) == p \in DOMAIN responses
Failed(p) == Invoked(p) /\ ~summarize_with(responses[p]).ok
Succeeded(p) == Invoked(p) /\ summarize_with(responses[p]).ok
LastCalled == calls[Len(calls)]

\* The provider whose dict was returned, and the JSON object it sent.
Accepted == CHOOSE i \in 1..Len(Providers) :
                /\ Succeeded(Providers[i])
                /\ \A j \in 1..(i - 1) : ~Succeeded(Providers[j])
AcceptedBody == responses[Providers[Accepted]].text.body

\* The value a key of the JSON object carries, or the default when absent.
FieldOf(body, key, default) ==
    IF key \notin body.keys THEN default
    ELSE IF key = "tldr" THEN body.tldr
    ELSE IF key = "bullets" THEN body.bullets
    ELSE IF key = "video_script" THEN body.video_script
    ELSE body.hashtags

\* C1: the providers are invoked in the order OpenRouter, Groq, Mistral,
\* Gemini, each at most once per call; provider i is invoked only if every
\* provider before it failed; once provider 1 returns valid JSON, providers
\* 2-4 are never invoked.
C1_ChainOrder ==
    /\ Len(calls) <= Len(Providers)
    /\ \A i \in 1..Len(calls) : calls[i] = Providers[i]
    /\ DOMAIN responses = {calls[i] : i \in 1..Len(calls)}
    /\ \A i \in 1..Len(calls) : \A j \in 1..(i - 1) : Failed(calls[j])
    /\ Succeeded("openrouter") => calls = <<"openrouter">>

C1_Witness ==
    /\ sum_pc = "returned"
    /\ calls = <<"openrouter", "groq", "mistral">>

\* C2: when summarize_article returns, its result is the parsed output of
\* the first provider in chain order that succeeded: the four fields of that
\* provider's JSON object.
C2_FirstSuccessReturned ==
    sum_pc = "returned" =>
        /\ \E i \in 1..Len(Providers) : Succeeded(Providers[i])
        /\ result.tldr = FieldOf(AcceptedBody, "tldr", "")
        /\ result.tldr \in {Providers[Accepted], ""}
        /\ result.bullets = FieldOf(AcceptedBody, "bullets", <<>>)
        /\ result.video_script = FieldOf(AcceptedBody, "video_script", "")
        /\ result.hashtags = FieldOf(AcceptedBody, "hashtags", <<>>)

C2_Witness ==
    /\ sum_pc = "returned"
    /\ Len(calls) = 4
    /\ result.tldr = "gemini"
    /\ \A i \in 1..3 : Failed(Providers[i])

\* C3: summarize_article raises if and only if all four providers failed,
\* and the aggregate error then carries exactly one message per provider,
\* the message of that provider's own failure.
C3_RaisesIffAllFailed ==
    /\ (sum_pc = "raised") <=> (\A p \in ProviderSet : Failed(p))
    /\ sum_pc = "raised" =>
        /\ DOMAIN raised = ProviderSet
        /\ \A p \in ProviderSet :
            raised[p] = summarize_with(responses[p]).err
    /\ sum_pc = "returned" => \E p \in ProviderSet : Succeeded(p)

C3_Witness ==
    /\ sum_pc = "raised"
    /\ Cardinality({raised[p] : p \in DOMAIN raised}) >= 3

\* The failures C4 lists, read off the backend's answer itself.
NetworkFailed(r) == r.key /\ r.net = "timeout"
Non2xx(r) == r.key /\ r.net \in {"http_error", "api_error"}
MalformedJson(r) == r.key /\ r.net = "ok" /\ r.text.body.kind = "malformed"
MissingKey(r) ==
    /\ r.key /\ r.net = "ok"
    /\ r.text.pre = "none" /\ r.text.post = "none"
    /\ r.text.body.kind = "object"
    /\ r.text.body.keys # RequiredKeys

IndexOf(p) == CHOOSE i \in 1..Len(Providers) : Providers[i] = p
\* How far the chain has got: the block it is at, or 5 once it has raised.
Position ==
    CASE sum_pc = "try_openrouter" -> 1
      [] sum_pc = "try_groq" -> 2
      [] sum_pc = "try_mistral" -> 3
      [] sum_pc = "try_gemini" -> 4
      [] sum_pc = "raised" -> 5
      [] sum_pc = "returned" -> Len(calls)
      [] OTHER -> 0

RecordedAndAdvanced(p) ==
    /\ p \in DOMAIN errors
    /\ errors[p] = summarize_with(responses[p]).err
    /\ errors[p] # ""
    /\ ~(sum_pc = "returned" /\ LastCalled = p)
    /\ Position > IndexOf(p)

C5_AsClaimed ==
    sum_pc = "returned" =>
        /\ Len(result.bullets) >= 5
        /\ Len(result.bullets) <= 8
        /\ Len(result.hashtags) <= 5

\* C5 as amended: every returned SummaryResult has exactly as many bullets
\* and hashtags as the accepted provider's JSON object carries (none for an
\* absent key); it has 5 to 8 bullets and at most 5 hashtags only when the
\* provider sent that many.
C5_CountsAreTheProviders ==
    sum_pc = "returned" =>
        /\ Len(result.bullets) = Len(FieldOf(AcceptedBody, "bullets", <<>>))
        /\ Len(result.hashtags) = Len(FieldOf(AcceptedBody, "hashtags", <<>>))

C5_Witness ==
    /\ sum_pc = "returned"
    /\ Len(result.bullets) > 8
    /\ Len(result.hashtags) > 5

(***************************************************************************)
(* Properties of generate_video                                            *)
(***************************************************************************)
Terminal == vid_pc \in {"returned", "raised"}
SpeechSynthesized == actual_audio_path # "none"
\* a handle is released once close() has been called on it
Released(h) == h \in {"none", "closed", "close_failed"}
CloseCalled(h) == h \in {"closed", "close_failed"}
AudioLength == Rat(audio_duration, 1)
\* length of the clips as concatenated, before any trimming
ConcatenatedLength == SumDur(clips)

\* C6: on every exit path of generate_video after speech synthesis wrote the
\* temporary audio file, failures before the render included, the audio
\* handle, every clip handle and the composite handle that were opened are
\* closed and the temporary audio file is deleted (its deletion is at least
\* attempted).
C6_CleanupOnEveryExit ==
    (Terminal /\ SpeechSynthesized) =>
        /\ Released(audio)
        /\ Released(main_video.h)
        /\ \A i \in 1..Len(clips) : Released(clips[i].h)
        /\ (actual_audio_path \notin disk \/ unlink_calls > 0)

\* C7: the render is attempted at most once; when it raises, the cleanup of
\* the audio handle, the composite handle, the clip handles and the temp
\* audio file runs exactly once and only then the render's exception reaches
\* the caller; when it succeeds the same cleanup runs exactly once before
\* the path is returned.
C7_CleanupOnceThenOutcome ==
    /\ render_calls <= 1
    /\ cleanup_runs <= render_calls
    /\ vid_pc = "finally" => (cleanup_runs = 0 /\ vid_outcome = "running")
    /\ (Terminal /\ render_calls = 1) =>
        /\ cleanup_runs = 1
        /\ unlink_calls = 1
        /\ CloseCalled(audio)
        /\ CloseCalled(main_video.h)
        /\ \A i \in 1..Len(clips) : CloseCalled(clips[i].h)
        /\ render_outcome = "raised" =>
            (vid_pc = "raised" /\ vid_outcome = "render_error")
        /\ render_outcome = "ok" =>
            (vid_pc = "returned" /\ vid_outcome = "returned")
    /\ vid_outcome \in {"returned", "render_error"} => cleanup_runs = 1

C7_Witness ==
    /\ vid_pc = "raised"
    /\ render_outcome = "raised"
    /\ cleanup_runs = 1
    /\ Len(clips) >= 2

\* C8: the visual timeline handed to the renderer is never shorter than the
\* audio track; when the concatenated clips are shorter, the final frame is
\* held so that the timeline length equals the audio length.
C8_NeverShorterThanAudio ==
    main_video.has_audio =>
        /\ ~RatLt(main_video.dur, AudioLength)
        /\ RatLt(ConcatenatedLength, AudioLength) =>
            main_video.dur = AudioLength

\* C9: whenever the concatenated visual timeline is longer than the audio
\* track, it is trimmed to exactly the audio duration before the audio is
\* attached.
C9_LongerIsTrimmed ==
    (main_video.has_audio /\ RatLt(AudioLength, ConcatenatedLength)) =>
        main_video.dur = AudioLength

C9_Witness ==
    /\ vid_pc = "render"
    /\ chunks >= 2
    /\ RatLt(AudioLength, ConcatenatedLength)

\* all clips of the loop are built: the shot plan is complete
ShotPlanBuilt == vid_pc = "reconcile" /\ chunks > 0

Assembled == main_video.h # "none"

\* C11: in every assembled video the first clip of the timeline is a hook
\* shot built from its own hook image, and the content shots follow it, one
\* per chunk, in order.
C11_HookShotFirst ==
    Assembled =>
        /\ Len(clips) = chunks + 1
        /\ clips[1].kind = "hook"
        /\ \A i \in 2..Len(clips) :
            /\ clips[i].kind = "broll"
            /\ clips[i].img = (i - 2) % themed_images

(***************************************************************************)
(* Properties of generate_image_fal                                        *)
(***************************************************************************)
ImageReturned == img_pc = "returned"

EnginesInvoked == {engine_calls[i] : i \in 1..Len(engine_calls)}
TimesInvoked(e) == Cardinality({i \in 1..Len(engine_calls) :
                                    engine_calls[i] = e})
WrittenBy(e) == {f.path : f \in {g \in tts_files : g.by = e}}

\* C13: gTTS is invoked if and only if Kokoro raised (during import, model
\* load, inference or file write); when Kokoro succeeds gTTS is never
\* invoked; when gTTS raises the exception leaves the function and nothing
\* else is tried; the path returned is the file written by the engine that
\* succeeded.
C13_FallbackIffPrimaryRaised ==
    /\ "gtts" \in EnginesInvoked <=> kokoro_raised # "none"
    /\ kokoro_raised \in {"none", "import", "load", "inference", "write"}
    /\ TimesInvoked("gtts") <= 1
    /\ TimesInvoked("kokoro") <= 1
    /\ tts_pc = "returned" /\ kokoro_raised = "none" =>
            /\ "gtts" \notin EnginesInvoked
            /\ tts_return \in WrittenBy("kokoro")
    /\ tts_pc = "returned" /\ kokoro_raised # "none" =>
            /\ tts_return \in WrittenBy("gtts")
            /\ WrittenBy("kokoro") = {}
    /\ tts_pc = "raised" =>
            /\ tts_raised = "gtts_error"
            /\ engine_calls[Len(engine_calls)] = "gtts"
            /\ tts_return = <<>>
    /\ tts_raised # "none" => tts_pc = "raised"

\* Kokoro raises while writing the .wav, gTTS saves the .mp3
C13_Witness ==
    /\ tts_pc = "returned"
    /\ kokoro_raised = "write"
    /\ segments > 0
    /\ tts_return = output_path
    /\ ReplaceMp3(output_path) # output_path

(***************************************************************************)
(* Properties of clean_script_for_tts and chunk_text_for_tiktok            *)
(***************************************************************************)
Cleaned == txt_pc \in {"cleaned", "chunked"}
Chunked == txt_pc = "chunked"

\* a "[" with a "]" somewhere after it
HasMarker(s) ==
    \E i \in 1..Len(s) : \E j \in (i + 1)..Len(s) : s[i] = "[" /\ s[j] = "]"

\* C14: for every script, the text handed to speech synthesis contains no
\* bracketed marker: no substring that opens with "[" and closes with "]"
\* survives clean_script_for_tts, markers spanning a line break included.
C14_NoMarkerSurvives ==
    Cleaned => ~HasMarker(clean_script)

WordCount(s) ==
    Cardinality({i \in 1..Len(s) :
                    ~IsSpace(s[i]) /\ (i = 1 \/ IsSpace(s[i - 1]))})

\* C15: when the cleaned text has n words and the chunk size is k >= 1,
\* chunk_text_for_tiktok returns ceil(n/k) chunks, which joined by single
\* spaces give the cleaned text back (original word order), every chunk but
\* the last with exactly k words, the last with 1..k words; n = 0 gives the
\* empty list.
C15_ChunkCountAndSizes ==
    Chunked =>
        LET n == WordCount(clean_script)
            k == words_per_chunk
            m == Len(text_chunks)
        IN /\ m = (n + k - 1) \div k
           /\ \A i \in 1..(m - 1) : WordCount(text_chunks[i]) = k
           /\ m > 0 => WordCount(text_chunks[m]) \in 1..k
           /\ Join(text_chunks) = clean_script
           /\ n = 0 => text_chunks = <<>>

\* three words in chunks of two: "a b" and "a"
C15_Witness ==
    /\ Chunked
    /\ script = <<"a", " ", "b", " ", "a">>
    /\ words_per_chunk = 2
    /\ text_chunks = << <<"a", " ", "b">>, <<"a">> >>

ChunkChars ==
    UNION {{text_chunks[i][j] : j \in 1..Len(text_chunks[i])} :
              i \in 1..Len(text_chunks)}

RECURSIVE CompleteTagsFrom(_, _, _)
CompleteTagsFrom(s, i, open) ==
    IF i > Len(s) THEN ~open
    ELSE IF s[i] = "[" THEN ~open /\ CompleteTagsFrom(s, i + 1, TRUE)
    ELSE IF s[i] = "]" THEN open /\ CompleteTagsFrom(s, i + 1, FALSE)
    ELSE IF s[i] = "\n" THEN ~open /\ CompleteTagsFrom(s, i + 1, open)
    ELSE CompleteTagsFrom(s, i + 1, open)

LoneOpen(s) ==
    \E i \in 1..Len(s) : s[i] = "[" /\ \A j \in (i + 1)..Len(s) : s[j] # "]"
LoneClose(s) ==
    \E j \in 1..Len(s) : s[j] = "]" /\ \A i \in 1..(j - 1) : s[i] # "["

C17_WhitespaceNormalised ==
    Cleaned =>
        /\ \A i \in 1..(Len(clean_script) - 1) :
                ~(IsSpace(clean_script[i]) /\ IsSpace(clean_script[i + 1]))
        /\ clean_script # <<>> =>
                /\ ~IsSpace(clean_script[1])
                /\ ~IsSpace(clean_script[Len(clean_script)])

\* a leading space and a line break followed by a space are normalised
C17_Witness ==
    /\ txt_pc = "cleaned"
    /\ script = <<" ", "a", "\n", " ", "b">>
    /\ clean_script = <<"a", " ", "b">>

(***************************************************************************)
(* Properties of the analysis calls and generate_themed_images             *)
(***************************************************************************)
RECURSIVE CallsTo(_, _)
CallsTo(fn, log) ==
    IF log = <<>> THEN <<>>
    ELSE (IF log[1].fn = fn THEN <<log[1]>> ELSE <<>>)
            \o CallsTo(fn, Tail(log))
PromptCalls == CallsTo("prompts", groq_log)

\* generate_image_prompts_with_groq has returned
PromptsReturned ==
    \/ an_pc \in {"build_list", "images", "returned"}
    \/ an_pc = "raised" /\ prompt_replies # <<>>

FirstReply == prompt_replies[1]
RetryReply == prompt_replies[2]
ValidatedAgainst == PromptKeywords(subjects, title)

\* the reply is a list of at least K entries once parsed
WellFormed(reply) ==
    /\ reply.net = "ok"
    /\ parse_json_response(reply).ok
    /\ parse_json_response(reply).value.type = "list"
    /\ Len(parse_json_response(reply).value.items) >= num_images
FirstK(reply) == SubSeq(parse_json_response(reply).value.items, 1, num_images)
FailsKeywordCheck(reply) ==
    WellFormed(reply) /\ validate_prompts(FirstK(reply), ValidatedAgainst) # {}
PassesValidation(reply) ==
    WellFormed(reply) /\ validate_prompts(FirstK(reply), ValidatedAgainst) = {}

\* C18: in generate_image_prompts_with_groq, when a prompt of the first
\* response fails the keyword check exactly one retry call is issued, with
\* the stricter instruction and a lower temperature than the first call; when
\* the retry fails validation or parsing too the function returns null; no
\* run issues more than two prompt calls; a first response that passes
\* validation is returned without a retry.
C18_OneStricterRetry ==
    /\ Len(PromptCalls) <= 2
    /\ Len(prompt_replies) <= Len(PromptCalls)
    /\ (prompt_replies # <<>> /\ FailsKeywordCheck(FirstReply)) =>
            an_pc = "retry" \/ Len(PromptCalls) = 2
    /\ Len(PromptCalls) = 2 =>
            /\ FailsKeywordCheck(FirstReply)
            /\ ~PromptCalls[1].strict
            /\ PromptCalls[2].strict
            /\ PromptCalls[2].temperature < PromptCalls[1].temperature
    /\ (PromptsReturned /\ Len(prompt_replies) = 2) =>
            IF PassesValidation(RetryReply)
            THEN prompts = List(FirstK(RetryReply))
            ELSE prompts = Null
    /\ (PromptsReturned /\ prompt_replies # <<>>
            /\ PassesValidation(FirstReply)) =>
            /\ Len(PromptCalls) = 1
            /\ prompts = List(FirstK(FirstReply))

\* the first response names no keyword in one prompt, the retry delivers K
\* prompts that all do
C18_Witness ==
    /\ an_pc = "returned"
    /\ Len(PromptCalls) = 2
    /\ FailsKeywordCheck(FirstReply)
    /\ PassesValidation(RetryReply)
    /\ prompts.type = "list"
    /\ Len(image_prompts) = num_images

Unparsable(reply) == reply.net = "ok" /\ ~parse_json_response(reply).ok
StructurallyInvalid(reply) ==
    /\ reply.net = "ok"
    /\ parse_json_response(reply).ok
    /\ \/ parse_json_response(reply).value.type # "list"
       \/ Len(parse_json_response(reply).value.items) < num_images
NetworkError(reply) == reply.net = "error"
FirstReplyUnusable ==
    /\ prompt_replies # <<>>
    /\ \/ Unparsable(FirstReply)
       \/ StructurallyInvalid(FirstReply)
       \/ NetworkError(FirstReply)

C20_NoCredentialDegrades ==
    (an_pc # "idle" /\ ~groq_key) =>
        /\ groq_log = <<>>
        /\ an_pc # "raised"
        /\ an_raised = "none"
        /\ an_pc \notin {"subjects"} =>
                subjects = NoKeySubjects(title).value
        /\ an_pc \notin {"subjects", "style"} => style = DefaultStyle
        /\ an_pc \notin {"subjects", "style", "prompts"} => prompts = Null
        /\ an_pc = "returned" => image_prompts # <<>>

ImagesReturned == an_pc = "returned"

\* C21: generate_themed_images(title, script, num_images = K) returns exactly
\* K images and calls image acquisition exactly K times, whatever the three
\* analysis calls did; when prompt generation returns null the fallback list
\* is the keyword-and-style list repeated to fill K entries.
C21_ExactlyKImages ==
    /\ an_pc \notin {"idle", "raised"} => Len(image_prompts) <= num_images
    /\ ImagesReturned =>
            /\ Len(image_prompts) = num_images
            /\ Len(prompt_list) = num_images
            /\ ~Truthy(prompts) =>
                    \A i \in 1..num_images :
                        \E kw \in {GetKeywords(subjects,
                                       List(<<Str(title)>>)).items[j] :
                                   j \in DOMAIN GetKeywords(subjects,
                                       List(<<Str(title)>>)).items} :
                            prompt_list[i] =
                                FallbackPrompt(kw, subjects.setting, style)

\* the fallback list has been built, or building it has raised
FallbackTaken ==
    /\ PromptsReturned
    /\ an_pc # "build_list"
    /\ ~Truthy(prompts)

\* C22: the fallback prompt list built by generate_themed_images is never
\* empty and building it never raises, for every value subject extraction can
\* return (an empty or missing visual_keywords included); so the image list
\* handed to generate_video is never empty.
C22_FallbackNeverEmpty ==
    /\ FallbackTaken => an_pc # "raised" /\ prompt_list # <<>>
    /\ ImagesReturned => image_prompts # <<>>

StyleSelected ==
    \/ an_pc \in {"prompts", "retry", "build_list", "images", "returned"}
    \/ an_pc = "raised" /\ groq_key

HasQualifier(chosen) ==
    \/ IsSubstring(<<"bright">>, LowerStr(chosen))
    \/ IsSubstring(<<"vibrant">>, LowerStr(chosen))

\* C23: every style string returned by select_style_with_groq contains
\* "bright" or "vibrant", case-insensitively: the backend's answer as it is,
\* the answer with the qualifiers appended, the default for a missing
\* credential and the default after a failure.
C23_StyleCarriesQualifier ==
    StyleSelected => HasQualifier(style)

\* the backend answered "neon" in quotes; the qualifiers were appended
C23_Witness ==
    /\ ImagesReturned
    /\ groq_key
    /\ style = <<"neon", ",", "bright", ",", "vibrant", ",", "eye-catching">>

(***************************************************************************)
(* The article endpoints                                                   *)
(***************************************************************************)
Forward ==
    {<<"scraped", "summarizing">>, <<"summarizing", "summarized">>,
     <<"summarized", "generating_video">>,
     <<"generating_video", "video_done">>}
Failure == {<<"summarizing", "failed">>, <<"generating_video", "failed">>}
RetryFromFailed ==
    {<<"failed", "summarizing">>, <<"failed", "generating_video">>}

\* C24: the status of an article only moves along scraped -> summarizing ->
\* summarized -> generating_video -> video_done, one stage at a time, into
\* failed from the two in-progress stages, and out of failed into an
\* in-progress stage; no summarize or video request moves it otherwise.
C24_ForwardStateMachine ==
    [][\A id \in DOMAIN articles :
            articles'[id].status # articles[id].status =>
                <<articles[id].status, articles'[id].status>> \in
                    Forward \cup Failure \cup RetryFromFailed]_vars

InProgress(endpoint) ==
    IF endpoint = "summarize" THEN "summarizing" ELSE "generating_video"

\* C25: an article becomes failed only in a step of a request whose pipeline
\* call raised, and the status that step replaces is the in-progress status
\* that same request had set; a pipeline call that returns never yields
\* failed.
C25_FailedOnlyFromOwnInProgress ==
    [][\A id \in DOMAIN articles :
            (articles'[id].status = "failed"
                /\ articles[id].status # "failed") =>
                \E w \in Workers :
                    /\ workers[w].pc = "pipeline"
                    /\ workers[w].id = id
                    /\ workers'[w] = Idle
                    /\ response'.exc \in ExcMessages
                    /\ articles[id].status =
                            InProgress(workers[w].endpoint)]_vars

\* C26: a video request for a stored article without a video script is
\* answered 400 'Article must be summarized first', starts no generate_video
\* call and leaves every row as it was.
C26_NoScriptRejected ==
    [][\A w \in Workers :
            (/\ workers[w].pc = "received"
             /\ workers[w].endpoint = "video"
             /\ workers[w].id \in DOMAIN articles
             /\ ~HasScript(articles[workers[w].id])
             /\ workers'[w] # workers[w]) =>
                /\ response' = Response("video", 400,
                                        "Article must be summarized first", 0)
                /\ workers'[w] = Idle
                /\ articles' = articles]_vars

\* a summarized article whose stored script is null was just refused
C26_Witness ==
    /\ response.endpoint = "video"
    /\ response.code = 400
    /\ \E id \in DOMAIN articles :
            /\ articles[id].status = "summarized"
            /\ articles[id].video_script = Null

\* C27: when the pipeline call of a summarize or video request raises, the
\* article becomes failed and the answer is 500 with the fixed text of the
\* endpoint, whatever the exception's message: the message is no part of
\* the response.
C27_FixedErrorText ==
    [][\A w \in Workers :
            (/\ workers[w].pc = "pipeline"
             /\ workers'[w] # workers[w]
             /\ response'.exc # "") =>
                /\ articles'[workers[w].id].status = "failed"
                /\ response'.code = 500
                /\ response'.text =
                        (IF workers[w].endpoint = "summarize"
                         THEN SUMMARY_FAILED ELSE VIDEO_FAILED)
                /\ response'.text \notin ExcMessages
                /\ response'.article = 0]_vars

C27_Witness ==
    /\ response.endpoint = "summarize"
    /\ response.code = 500
    /\ response.exc = "All AI providers failed: {'groq': 'API Error'}"
    /\ \E id \in DOMAIN articles : articles[id].status = "failed"

UniqueUrls ==
    \A i, j \in DOMAIN articles :
        articles[i].url = articles[j].url => i = j

\* C28: no two stored articles ever share a url, under every interleaving of
\* scrape requests; and a scrape request whose url is stored adds no row,
\* changes no row and is answered 200 with the stored article, not 201.
C28_UrlIsIdentity ==
    /\ []UniqueUrls
    /\ [][\A w \in Workers :
            (/\ workers[w].pc = "received"
             /\ workers[w].endpoint = "scrape"
             /\ Existing(workers[w].url) # {}
             /\ workers'[w] # workers[w]) =>
                /\ articles' = articles
                /\ response'.code = 200
                /\ response'.text = "Article already exists"
                /\ response'.article \in Existing(workers[w].url)]_vars

\* with two urls stored, a request for one of them was answered 200
C28_Witness ==
    /\ Len(articles) = 2
    /\ response.endpoint = "scrape"
    /\ response.code = 200
    /\ response.article = 2

(***************************************************************************)
(* Concurrent generate_video invocations                                   *)
(***************************************************************************)
\* the invocation has written its audio file and not yet unlinked it
UsesAudio(g) ==
    runs[g].pc \in {"load", "clips", "img_saved", "img_read", "rendered",
                    "render_failed"}

\* the invocation has saved a temporary image and not yet unlinked it
UsesImage(g) == runs[g].pc \in {"img_saved", "img_read"}

\* C29: two generate_video invocations running at the same time, for the
\* same article or not, never use the same temporary audio file or the same
\* temporary image file.
C29_NoSharedTempFile ==
    \A g1, g2 \in Invocations :
        g1 # g2 =>
            /\ (UsesAudio(g1) /\ UsesAudio(g2)) =>
                    runs[g1].actual_audio_path # runs[g2].actual_audio_path
            /\ (UsesImage(g1) /\ UsesImage(g2)) =>
                    runs[g1].temp_img_path # runs[g2].temp_img_path

\* C30: the artifacts of two successful generate_video runs are at different
\* paths, whether the runs follow each other or overlap and whether or not
\* they are for the same article; no run writes over the artifact of
\* another.
C30_ArtifactPathsDistinct ==
    \A g1, g2 \in Invocations :
        (g1 # g2 /\ runs[g1].pc = "done" /\ runs[g2].pc = "done") =>
            runs[g1].output_path # runs[g2].output_path

(***************************************************************************)
(* Prompts, attempts, clips                                                *)
(***************************************************************************)
\* the strings among the visual_keywords of the extracted subjects
KeywordTexts ==
    IF "visual_keywords" \in subjects.keys
          /\ subjects.visual_keywords.type = "list"
    THEN {subjects.visual_keywords.items[i].text :
            i \in {j \in DOMAIN subjects.visual_keywords.items :
                        subjects.visual_keywords.items[j].type = "str"}}
    ELSE {}

ContainsKeyword(prompt) ==
    /\ prompt.type = "str"
    /\ \E kw \in KeywordTexts :
            IsSubstring(LowerStr(kw), LowerStr(prompt.text))

\* C31: every prompt generate_themed_images passes to image acquisition
\* contains, in any case, one of the visual_keywords of the subjects, whether
\* the list is the first response, the retry or the fallback; and a result
\* of generate_image_prompts_with_groq that is not null has exactly K
\* prompts.
C31_EveryPromptNamesAKeyword ==
    /\ \A i \in DOMAIN image_prompts : ContainsKeyword(image_prompts[i])
    /\ (PromptsReturned /\ prompts.type # "null") =>
            /\ prompts.type = "list"
            /\ Len(prompts.items) = num_images

\* C32: generate_image_fal calls the image backend not at all without
\* FAL_KEY and at most retry_count times with it; every attempt is one call;
\* it makes no attempt after the one that returned an image; and the
\* gradient is returned, with the key set, only after retry_count attempts
\* have failed, at which point the function does return.
C32_AttemptsBounded ==
    /\ ~fal_key => fal_calls = 0
    /\ fal_calls = attempt
    /\ fal_calls <= retry_count
    /\ ImageReturned => ~ENABLED Attempt
    /\ (ImageReturned /\ fal_key /\ image.src = "gradient") =>
            attempt = retry_count
    /\ (img_pc = "loop" /\ attempt = retry_count) =>
            ENABLED AttemptsExhausted

\* the default of two attempts, both failed: the gradient
C32_Witness ==
    /\ ImageReturned
    /\ fal_key
    /\ retry_count = RETRY_ATTEMPTS
    /\ fal_calls = RETRY_ATTEMPTS
    /\ image.src = "gradient"

\* the clip loop of lines 892-898 has run to its end
ClipLoopDone == vid_pc \in {"reconcile", "render", "finally", "returned"}

\* C33: generate_video builds exactly one clip per chunk, and clip i
\* (0-based) shows image i mod len(images) of the generated list, so the
\* images cycle in order when they are fewer than the chunks; computing the
\* index never fails.
C33_OneClipPerChunkCycling ==
    /\ \A i \in 1..Len(clips) : clips[i].img = (i - 1) % themed_images
    /\ Len(clips) <= chunks
    /\ ClipLoopDone => Len(clips) = chunks
    /\ vid_outcome # "ZeroDivisionError"

(***************************************************************************)
(* What the endpoints store                                                *)
(***************************************************************************)
\* the step in which worker w ends a summarize request after its pipeline
\* call
EndsSummarize(w) ==
    /\ workers[w].pc = "pipeline"
    /\ workers[w].endpoint = "summarize"
    /\ workers'[w] # workers[w]

\* C34: a summarize request that succeeds leaves the article summarized with
\* the tldr, bullets, video script and hashtags of the returned summary, and
\* a read of the article returns all four; one that fails leaves the stored
\* tldr, bullets and video script as they were and changes only the status.
C34_SummaryStored ==
    [][\A w \in Workers :
        EndsSummarize(w) =>
            LET before == articles[workers[w].id]
                after == articles'[workers[w].id]
                read == to_dict(after)
            IN IF response'.code = 200
               THEN /\ after.status = "summarized"
                    /\ \E summary \in SummaryResults :
                            /\ read.tldr = summary.tldr
                            /\ read.bullets = summary.bullets
                            /\ read.video_script = summary.video_script
                            /\ "hashtags" \in DOMAIN read
                            /\ read.hashtags = summary.hashtags
               ELSE after = [before EXCEPT !.status = after.status]]_vars

(***************************************************************************)
(* A second cleaning pass                                                  *)
(***************************************************************************)
\* C35: clean_script_for_tts is idempotent: cleaning the cleaned script
\* again returns the cleaned script, for brackets separated by a line break
\* and for nested or unbalanced brackets too.
C35_CleanIdempotent ==
    Cleaned => clean_script_for_tts(clean_script) = clean_script

(***************************************************************************)
(* The crop box                                                            *)
(***************************************************************************)
\* the crop box lies in an image of orig_width x orig_height, is not empty,
\* is centred within one pixel and crops one dimension only
SoundBox(box, orig_width, orig_height) ==
    LET left == box[1]
        upper == box[2]
        right == box[3]
        lower == box[4]
        wider == orig_width * VIDEO_HEIGHT > VIDEO_WIDTH * orig_height
    IN /\ right - left >= 1 /\ lower - upper >= 1
       /\ 0 <= left /\ right <= orig_width
       /\ 0 <= upper /\ lower <= orig_height
       /\ left - (orig_width - right) \in {-1, 0, 1}
       /\ upper - (orig_height - lower) \in {-1, 0, 1}
       /\ IF wider THEN upper = 0 /\ lower = orig_height
                   ELSE left = 0 /\ right = orig_width

\* C36: for every source image of at least 1 x 1 pixels the crop box of
\* resize_and_crop_image is non-empty, lies inside the source image, is
\* centred within one pixel, and crops the width only when the source is
\* wider than the target ratio and the height only otherwise.
C36_CropBoxSound ==
    (img_pc = "returned" /\ image.src = "fal") =>
        \E orig_width \in 1..MaxSide, orig_height \in 1..MaxSide :
            /\ image.box = CropBox(orig_width, orig_height,
                                   VIDEO_WIDTH, VIDEO_HEIGHT)
            /\ SoundBox(image.box, orig_width, orig_height)

(***************************************************************************)
(* Releases that fail                                                      *)
(***************************************************************************)
CleanupDone == cleanup_runs > 0 /\ vid_pc \in {"returned", "raised"}

\* C37: in the cleanup of generate_video a release that fails neither stops
\* the remaining releases nor replaces the outcome: the audio, the composite
\* and every clip are closed or were tried, the temp audio file's deletion
\* was tried, and the caller gets the output path when the render returned
\* and the render's exception when it raised.
C37_ReleaseFailuresContained ==
    CleanupDone =>
        /\ CloseCalled(audio)
        /\ CloseCalled(main_video.h)
        /\ \A i \in 1..Len(clips) : CloseCalled(clips[i].h)
        /\ unlink_calls = cleanup_runs
        /\ vid_outcome =
              (IF render_outcome = "ok" THEN "returned" ELSE "render_error")

C37_Witness ==
    /\ CleanupDone
    /\ audio = "close_failed"
    /\ main_video.h = "closed"
    /\ \E i \in 1..Len(clips) : clips[i].h = "closed"
    /\ actual_audio_path \notin disk
    /\ render_outcome = "raised"
    /\ vid_outcome = "render_error"

(***************************************************************************)
(* Speech before images                                                    *)
(***************************************************************************)
\* the step that calls generate_themed_images, whatever its result
ImagesStep == vid_pc = "images" /\ vid_pc' # "images"

PastImages ==
    vid_pc \in {"chunk", "clips", "reconcile", "render", "finally",
                "returned"}

\* C38: speech synthesis runs before content analysis and image generation:
\* when both speech engines fail generate_video raises from the synthesis
\* step, with no image requested, and generate_themed_images is called only
\* when the audio file exists, the audio is open and its duration was read.
C38_SpeechBeforeImages ==
    /\ [](vid_outcome = "tts_error" =>
            /\ ~SpeechSynthesized
            /\ audio = "none"
            /\ themed_images = 0)
    /\ []((vid_pc = "images" \/ PastImages) =>
            SpeechSynthesized /\ audio # "none" /\ audio_duration >= 1)
    /\ [][/\ ImagesStep =>
                /\ actual_audio_path \in disk
                /\ audio = "open"
                /\ audio_duration >= 1
          /\ vid_outcome' = "tts_error" => vid_pc = "tts"]_vars

C38_Witness ==
    /\ vid_pc = "chunk"
    /\ themed_images > 0
    /\ actual_audio_path \in disk
    /\ audio = "open"
    /\ audio_duration >= 1

(***************************************************************************)
(* What a status says about the row                                        *)
(***************************************************************************)
\* C39: in every committed state of an article, under every interleaving of
\* summarize and video requests, status summarized implies that the video
\* script, the tldr and the bullets are set, and status video_done implies
\* that the video path and a video script are set.
C39_StatusImpliesFields ==
    \A id \in DOMAIN articles :
        LET a == articles[id]
        IN /\ a.status = "summarized" =>
                /\ Truthy(a.video_script)
                /\ Truthy(a.tldr)
                /\ Truthy(a.bullets)
           /\ a.status = "video_done" =>
                /\ a.video_path # None
                /\ Truthy(a.video_script)

(***************************************************************************)
(* Requests that end                                                       *)
(***************************************************************************)
\* the step in which worker w's request ends after its pipeline call began
RequestOver(w) == workers[w].pc = "pipeline" /\ workers'[w].pc # "pipeline"

\* C40: no article stays in an in-progress status once its request is over:
\* the step that ends a request which had set summarizing or generating_video
\* leaves the article summarized, video_done or failed, whether the pipeline
\* call returned, raised, or the worker was killed by the server's timeout.
C40_NoRequestLeavesInProgress ==
    [][\A w \in Workers :
        RequestOver(w) =>
            articles'[workers[w].id].status
                \in {"summarized", "video_done", "failed"}]_vars
====
